---- MODULE Spec2Model ----
(***************************************************************************)
(* Entity cache (MemoryState), entity registry (EntityRegistry) and        *)
(* reconciler (Reconciler) of discordia.                                   *)
(*                                                                         *)
(* Python's None is modelled by Null (0): every DiscordSnowflake is a      *)
(* positive integer, so 0 is never an id.  Fields that are only carried    *)
(* along and never read by the code modelled here (position, topic,        *)
(* created_at, discriminator, edited_at) are left out of the records.      *)
(* The channel templates a pattern generates keep topic and position,      *)
(* which generate() computes; each is None (<<>>) or <<value>>.            *)
(*                                                                         *)
(* categories and channels are insertion-ordered dicts that the registry   *)
(* iterates (first match wins); they are sequences of entities with        *)
(* pairwise distinct ids, in insertion order.  users and messages are      *)
(* only read by key or through a sort on the total key (timestamp, id),    *)
(* so their iteration order is never observed; they are functions from     *)
(* the ids present to the entities.                                        *)
(***************************************************************************)
EXTENDS Integers, Sequences, FiniteSets, TLC

VARIABLES
    categories,   \* MemoryState.categories
    channels,     \* MemoryState.channels
    users,        \* MemoryState.users
    messages,     \* MemoryState.messages
    call,         \* the last cache / registry call: [op, arg, prior]
    ret,          \* its outcome: [status, error, value]
    template,     \* Bot.template, the ServerTemplate handed to reconcile
    remote,       \* the objects of the remote workspace (guild), in creation order
    pc,           \* where the reconcile run stands
    resolved,     \* reconcile's local: template.resolve_patterns()
    ci,           \* index of the category template being reconciled
    chi,          \* index of the channel template being reconciled
    cur_category_id,  \* _reconcile_category's local category.id
    discord_obj,  \* the object the last remote creation call returned
    raised,       \* the exception the last run raised
    log,          \* the registry, remote and store calls of the current run
    run,          \* number of reconcile runs started
    outcomes,     \* how each finished run ended
    dop,          \* the DiscoveryEngine method running or last run
    dpc,          \* where that discovery call stands
    di,           \* its position in guild.channels
    discovered,   \* its local list of saved entities, returned at the end
    mpc,          \* where Bot._on_message stands
    mev,          \* the MessageCreate event it is processing
    db,           \* DatabaseWriter._state: the structured store of the managers
    jsonl,        \* the lines of the JSONL file, the append log of the managers
    logged,       \* the logger.error records of the last manager save
    tasks,        \* the asyncio tasks of the Bot: event handlers and reconcile loops
    lock,         \* MemoryState._lock: the task that holds it, Null when free
    reconcile_task,  \* Bot._reconcile_task: a task of tasks, Null for None
    settings,     \* Bot.settings: reconcile_interval and auto_reconcile
    stopped,      \* Bot.stop() has been called
    started       \* the calls of Reconciler.reconcile by the tasks, in order

cache == <<categories, channels, users, messages>>

disc == <<dop, dpc, di, discovered>>

ing == <<mpc, mev>>

sinks == <<db, jsonl, logged>>

conc == <<tasks, lock, reconcile_task, settings, stopped, started>>

recon == <<template, remote, pc, resolved, ci, chi, cur_category_id, discord_obj,
           raised, log, run, outcomes>>

rec == <<template, remote, pc, resolved, ci, chi, cur_category_id, discord_obj,
         raised, log, run, outcomes, dop, dpc, di, discovered, mpc, mev, db, jsonl, logged,
          tasks, lock, reconcile_task, settings, stopped, started>>

vars == <<categories, channels, users, messages, call, ret, template, remote,
          pc, resolved, ci, chi, cur_category_id, discord_obj, raised, log, run,
          outcomes, dop, dpc, di, discovered, mpc, mev, db, jsonl, logged,
          tasks, lock, reconcile_task, settings, stopped, started>>

Null == 0

----------------------------------------------------------------------------
(* Bounds and input domains                                                *)

\* most message ids a history holds
MaxMessageId == 4

\* most message ids the cache specification saves
MaxCacheMessageId == 1

\* largest limit asked of get_messages
MaxLimit == 3

\* settings.server_id, the server the bot is configured for
ServerId == 1

\* the configured server and another one
ServerIds == {ServerId, ServerId + 1}

CategoryIds == {1, 2}

ChannelIds == {1, 2}

UserIds == {1, 2}

MessageIds == 1..MaxMessageId

CacheMessageIds == 1..MaxCacheMessageId

Timestamps == {1, 2}

Limits == (0 - 1)..MaxLimit

----------------------------------------------------------------------------
(* Outcomes of a call                                                      *)

Return(value) ==
    [status |-> "return", error |-> "", value |-> value]

Raise(error) ==
    [status |-> "raise", error |-> error, value |-> <<>>]

\* Optional[Entity]: None is the empty sequence, an entity e is <<e>>.
None == <<>>

----------------------------------------------------------------------------
(* dict helpers                                                            *)

\* ids of an insertion-ordered dict
Keys(d) ==
    {d[i].id : i \in 1..Len(d)}

\* position of key id in an insertion-ordered dict (0 when absent)
IndexOf(d, id) ==
    IF id \in Keys(d) THEN CHOOSE i \in 1..Len(d) : d[i].id = id ELSE 0

\* mutant of DictSet: dict.setdefault, an existing key keeps its old value
DictSetDefault(d, e) ==
    IF e.id \in Keys(d) THEN d ELSE Append(d, e)

\* d[e.id] = e on an insertion-ordered dict: an existing key keeps its
\* position and gets the new value; a new key is appended.
DictSet(d, e) ==
    IF e.id \in Keys(d)
    THEN [d EXCEPT ![IndexOf(d, e.id)] = e]
    ELSE Append(d, e)

\* d.get(id) on an insertion-ordered dict
DictGet(d, id) ==
    IF id \in Keys(d) THEN <<d[IndexOf(d, id)]>> ELSE None

\* d[e.id] = e on a dict whose order is not observed
MapSet(m, e) ==
    [k \in (DOMAIN m) \cup {e.id} |-> IF k = e.id THEN e ELSE m[k]]

\* d.get(id) on a dict whose order is not observed
MapGet(m, id) ==
    IF id \in DOMAIN m THEN <<m[id]>> ELSE None

EmptyMap == [k \in {} |-> Null]

----------------------------------------------------------------------------
(* MemoryState                                                             *)

\* mutant of SaveChannelError: the category check is left out
SaveChannelErrorUnchecked(channel) ==
    ""

\* the StateError save_channel raises, "" when it does not raise
SaveChannelError(channel) ==
    IF channel.category_id # Null /\ channel.category_id \notin Keys(categories)
    THEN "StateError"
    ELSE ""

\* the StateError save_message raises, "" when it does not raise
SaveMessageError(message) ==
    IF message.author_id \notin DOMAIN users THEN "StateError"
    ELSE IF message.channel_id \notin Keys(channels) THEN "StateError"
    ELSE ""

\* the record of a call: its name, its argument and, for a save, the value
\* the map held under the argument's id before the call (None if absent)
Call(op, arg, prior) ==
    [op |-> op, arg |-> arg, prior |-> prior]

\* mutant of save_category: a cached id is removed and inserted again
save_category_reinsert(category) ==
    /\ categories' = Append(SelectSeq(categories, LAMBDA c : c.id # category.id), category)
    /\ call' = Call("save_category", category, DictGet(categories, category.id))
    /\ ret' = Return(None)
    /\ UNCHANGED <<channels, users, messages>>

save_category(category) ==
    /\ categories' = DictSet(categories, category)
    /\ call' = Call("save_category", category, DictGet(categories, category.id))
    /\ ret' = Return(None)
    /\ UNCHANGED <<channels, users, messages>>

save_channel(channel) ==
    /\ call' = Call("save_channel", channel, DictGet(channels, channel.id))
    /\ IF SaveChannelError(channel) # ""
       THEN /\ ret' = Raise(SaveChannelError(channel))
            /\ UNCHANGED channels
       ELSE /\ channels' = DictSet(channels, channel)
            /\ ret' = Return(None)
    /\ UNCHANGED <<categories, users, messages>>

save_user(user) ==
    /\ users' = MapSet(users, user)
    /\ call' = Call("save_user", user, MapGet(users, user.id))
    /\ ret' = Return(None)
    /\ UNCHANGED <<categories, channels, messages>>

\* mutant of save_message: the message is written before the checks
save_message_write_first(message) ==
    /\ call' = Call("save_message", message, MapGet(messages, message.id))
    /\ messages' = MapSet(messages, message)
    /\ ret' = IF SaveMessageError(message) # ""
              THEN Raise(SaveMessageError(message))
              ELSE Return(None)
    /\ UNCHANGED <<categories, channels, users>>

save_message(message) ==
    /\ call' = Call("save_message", message, MapGet(messages, message.id))
    /\ IF SaveMessageError(message) # ""
       THEN /\ ret' = Raise(SaveMessageError(message))
            /\ UNCHANGED messages
       ELSE /\ messages' = MapSet(messages, message)
            /\ ret' = Return(None)
    /\ UNCHANGED <<categories, channels, users>>

get_category(category_id) ==
    /\ call' = Call("get_category", [id |-> category_id], None)
    /\ ret' = Return(DictGet(categories, category_id))
    /\ UNCHANGED cache

get_channel(channel_id) ==
    /\ call' = Call("get_channel", [id |-> channel_id], None)
    /\ ret' = Return(DictGet(channels, channel_id))
    /\ UNCHANGED cache

get_user(user_id) ==
    /\ call' = Call("get_user", [id |-> user_id], None)
    /\ ret' = Return(MapGet(users, user_id))
    /\ UNCHANGED cache

\* state.py only: MemoryState.get_message
get_message(message_id) ==
    /\ call' = Call("get_message", [id |-> message_id], None)
    /\ ret' = Return(MapGet(messages, message_id))
    /\ UNCHANGED cache

----------------------------------------------------------------------------
(* Inputs of the cache specification                                       *)

CategoryInputs ==
    [id : CategoryIds, name : {"log", "ops"}, server_id : {ServerId}]

ChannelInputs ==
    [id : ChannelIds, name : {"general"}, category_id : {Null, 1},
     server_id : {ServerId}]

UserInputs ==
    [id : UserIds, username : {"ann", "bob"}]

MessageInputs ==
    [id : CacheMessageIds, content : {"hi"}, author_id : UserIds, channel_id : ChannelIds,
     timestamp : {1}]

SaveCategory ==
    /\ \E category \in CategoryInputs : save_category(category)
    /\ UNCHANGED rec

SaveChannel ==
    /\ \E channel \in ChannelInputs : save_channel(channel)
    /\ UNCHANGED rec

SaveUser ==
    /\ \E user \in UserInputs : save_user(user)
    /\ UNCHANGED rec

SaveMessage ==
    /\ \E message \in MessageInputs : save_message(message)
    /\ UNCHANGED rec

GetCategory ==
    /\ \E id \in CategoryIds : get_category(id)
    /\ UNCHANGED rec

GetChannel ==
    /\ \E id \in ChannelIds : get_channel(id)
    /\ UNCHANGED rec

GetUser ==
    /\ \E id \in UserIds : get_user(id)
    /\ UNCHANGED rec

GetMessage ==
    /\ \E id \in CacheMessageIds : get_message(id)
    /\ UNCHANGED rec

\* ServerTemplate(): no categories, no channels, no patterns
EmptyTemplate ==
    [categories |-> <<>>, uncategorized_channels |-> <<>>, patterns |-> <<>>]

NoError == [type |-> "", cause |-> ""]

\* MemoryState(): four empty maps
InitCache ==
    /\ categories = <<>>
    /\ channels = <<>>
    /\ users = EmptyMap
    /\ messages = EmptyMap
    /\ call = Call("init", [id |-> Null], None)
    /\ ret = Return(None)

\* Reconciler(...) before any run
InitRun ==
    /\ pc = "idle"
    /\ resolved = EmptyTemplate
    /\ ci = 0
    /\ chi = 0
    /\ cur_category_id = Null
    /\ discord_obj = None
    /\ raised = NoError
    /\ log = <<>>
    /\ run = 0
    /\ outcomes = <<>>

\* Reconciler(...) before any run, against an empty remote workspace
InitReconciler ==
    /\ remote = <<>>
    /\ InitRun

\* DiscoveryEngine(...) before any call
InitDiscovery ==
    /\ dop = ""
    /\ dpc = "idle"
    /\ di = 0
    /\ discovered = <<>>

\* no MessageCreate event is being processed
InitIngest ==
    /\ mpc = "idle"
    /\ mev = None

\* Settings.reconcile_interval: Field(default=300, ...)
reconcile_interval_default == 300

\* DatabaseWriter and JSONLWriter before any write: an empty store and an
\* empty file
InitSinks ==
    /\ db = [categories |-> EmptyMap, channels |-> EmptyMap, users |-> EmptyMap,
             messages |-> EmptyMap]
    /\ jsonl = <<>>
    /\ logged = <<>>

\* Settings() with its defaults, a Bot on which no event has been dispatched
\* and whose MemoryState lock is free
InitConc ==
    /\ tasks = <<>>
    /\ lock = Null
    /\ reconcile_task = Null
    /\ settings = [reconcile_interval |-> reconcile_interval_default,
                   auto_reconcile |-> TRUE]
    /\ stopped = FALSE
    /\ started = <<>>

\* a Bot constructed without a template
Init ==
    /\ InitCache
    /\ InitReconciler
    /\ InitDiscovery
    /\ InitIngest
    /\ InitSinks
    /\ InitConc
    /\ template = EmptyTemplate

Next ==
    \/ SaveCategory
    \/ SaveChannel
    \/ SaveUser
    \/ SaveMessage
    \/ GetCategory
    \/ GetChannel
    \/ GetUser
    \/ GetMessage

Spec == Init /\ [][Next]_vars

----------------------------------------------------------------------------
(* Claims about the cache                                                  *)

\* C1: in every reachable state of the cache every channel with a non-null
\* category_id refers to a cached category, and every message's author_id
\* and channel_id refer to a cached user and a cached channel.
C1_ReferentialIntegrity ==
    /\ \A i \in 1..Len(channels) :
          channels[i].category_id # Null => channels[i].category_id \in Keys(categories)
    /\ \A k \in DOMAIN messages :
          /\ messages[k].author_id \in DOMAIN users
          /\ messages[k].channel_id \in Keys(channels)

\* a categorized channel and a message are cached, beside a second category
C1_Witness ==
    /\ \E i \in 1..Len(channels) : channels[i].category_id # Null
    /\ DOMAIN messages # {}
    /\ Len(categories) = 2

\* C2: save_channel with an absent non-null category_id and save_message
\* with an absent author_id or channel_id raise StateError and leave the
\* four maps unchanged; save_channel with a null category_id never raises.
C2_RaiseLeavesCacheUnchanged ==
    [][/\ (/\ call'.op = "save_channel"
           /\ call'.arg.category_id # Null
           /\ call'.arg.category_id \notin Keys(categories))
          => (ret' = Raise("StateError") /\ UNCHANGED cache)
       /\ (/\ call'.op = "save_message"
           /\ \/ call'.arg.author_id \notin DOMAIN users
              \/ call'.arg.channel_id \notin Keys(channels))
          => (ret' = Raise("StateError") /\ UNCHANGED cache)
       /\ (call'.op = "save_channel" /\ call'.arg.category_id = Null)
          => ret'.status = "return"]_vars

\* a save_message has raised for a missing channel while its author and
\* other entities were cached
C2_Witness ==
    /\ call.op = "save_message"
    /\ ret = Raise("StateError")
    /\ call.arg.author_id \in DOMAIN users
    /\ call.arg.channel_id \notin Keys(channels)
    /\ Len(channels) > 0
    /\ DOMAIN messages # {}

\* C7: a save under an id already present replaces the stored value and
\* does not grow the map, and a get_* that follows a save of the same id
\* returns exactly the saved payload.
C7_UpsertReplaces ==
    [][/\ (call'.op = "save_category" /\ ret'.status = "return")
          => /\ DictGet(categories', call'.arg.id) = <<call'.arg>>
             /\ call'.arg.id \in Keys(categories) => Len(categories') = Len(categories)
       /\ (call'.op = "save_channel" /\ ret'.status = "return")
          => /\ DictGet(channels', call'.arg.id) = <<call'.arg>>
             /\ call'.arg.id \in Keys(channels) => Len(channels') = Len(channels)
       /\ (call'.op = "save_user" /\ ret'.status = "return")
          => /\ MapGet(users', call'.arg.id) = <<call'.arg>>
             /\ call'.arg.id \in DOMAIN users => DOMAIN users' = DOMAIN users
       /\ (call'.op = "save_message" /\ ret'.status = "return")
          => /\ MapGet(messages', call'.arg.id) = <<call'.arg>>
             /\ call'.arg.id \in DOMAIN messages => DOMAIN messages' = DOMAIN messages
       /\ (/\ call.op \in {"save_category", "save_channel", "save_user", "save_message"}
           /\ ret.status = "return"
           /\ call'.op = CASE call.op = "save_category" -> "get_category"
                            [] call.op = "save_channel" -> "get_channel"
                            [] call.op = "save_user" -> "get_user"
                            [] OTHER -> "get_message"
           /\ call'.arg.id = call.arg.id)
          => ret' = Return(<<call.arg>>)]_vars

\* a second save_category under a cached id, with another payload, has
\* replaced the first beside another cached category
C7_Witness ==
    /\ call.op = "save_category"
    /\ call.prior # None
    /\ call.prior # <<call.arg>>
    /\ DictGet(categories, call.arg.id) = <<call.arg>>
    /\ Len(categories) = 2

----------------------------------------------------------------------------
(* MemoryState.get_messages                                                *)

\* the sort key (m.timestamp, m.id), compared as Python compares tuples
KeyLess(a, b) ==
    \/ a.timestamp < b.timestamp
    \/ (a.timestamp = b.timestamp /\ a.id < b.id)

RECURSIVE SortByKey(_)

\* sorted(messages, key=lambda m: (m.timestamp, m.id))
SortByKey(S) ==
    IF S = {}
    THEN <<>>
    ELSE LET m == CHOOSE x \in S : \A y \in S \ {x} : KeyLess(x, y)
         IN <<m>> \o SortByKey(S \ {m})

\* mutant of LastN: the slice ordered[:n], the oldest n
FirstN(seq, n) ==
    IF n >= Len(seq) THEN seq ELSE SubSeq(seq, 1, n)

\* the slice ordered[-n:] for n > 0
LastN(seq, n) ==
    IF n >= Len(seq) THEN seq ELSE SubSeq(seq, Len(seq) - n + 1, Len(seq))

\* [m for m in self.messages.values() if m.channel_id == channel_id]
ChannelMessages(channel_id) ==
    {messages[k] : k \in {j \in DOMAIN messages : messages[j].channel_id = channel_id}}

get_messages(channel_id, limit) ==
    LET ordered == SortByKey(ChannelMessages(channel_id))
    IN /\ call' = Call("get_messages", [id |-> channel_id, limit |-> limit], None)
       /\ ret' = Return(IF limit > 0 THEN LastN(ordered, limit) ELSE ordered)
       /\ UNCHANGED cache

----------------------------------------------------------------------------
(* The history specification: one author, uncategorized channels, messages *)
(* with equal and with different timestamps, and get_messages.             *)

HistoryUserInputs ==
    [id : {1}, username : {"ann"}]

HistoryChannelInputs ==
    [id : ChannelIds, name : {"general"}, category_id : {Null}, server_id : {ServerId}]

HistoryMessageInputs ==
    [id : MessageIds, content : {"hi"}, author_id : {1}, channel_id : ChannelIds,
     timestamp : Timestamps]

HistorySaveUser ==
    /\ \E user \in HistoryUserInputs : save_user(user)
    /\ UNCHANGED rec

HistorySaveChannel ==
    /\ \E channel \in HistoryChannelInputs : save_channel(channel)
    /\ UNCHANGED rec

HistorySaveMessage ==
    /\ \E message \in HistoryMessageInputs : save_message(message)
    /\ UNCHANGED rec

GetMessages ==
    /\ \E channel_id \in ChannelIds, limit \in Limits : get_messages(channel_id, limit)
    /\ UNCHANGED rec

NextHistory ==
    \/ HistorySaveUser
    \/ HistorySaveChannel
    \/ HistorySaveMessage
    \/ GetMessages

SpecHistory == Init /\ [][NextHistory]_vars

\* the elements of a sequence
Range(seq) ==
    {seq[i] : i \in 1..Len(seq)}

\* C8: for a limit k > 0, get_messages(channel_id, k) returns the last
\* min(k, N) of the channel's N cached messages in ascending order of
\* (timestamp, id), and no message of another channel.
C8_RecentAscending ==
    (call.op = "get_messages" /\ call.arg.limit > 0)
    => LET r == ret.value
           S == ChannelMessages(call.arg.id)
           N == Cardinality(S)
       IN /\ ret.status = "return"
          /\ Len(r) = IF call.arg.limit < N THEN call.arg.limit ELSE N
          /\ \A i \in 1..Len(r) : r[i] \in S /\ r[i].channel_id = call.arg.id
          /\ \A i, j \in 1..Len(r) :
                i < j => \/ r[i].timestamp < r[j].timestamp
                         \/ (r[i].timestamp = r[j].timestamp /\ r[i].id < r[j].id)
          /\ \A m \in S \ Range(r) : \A i \in 1..Len(r) :
                \/ m.timestamp < r[i].timestamp
                \/ (m.timestamp = r[i].timestamp /\ m.id < r[i].id)

\* a history of three messages, two of them with the same timestamp, was
\* asked for its last two while the other channel held a message too
C8_Witness ==
    /\ call.op = "get_messages"
    /\ call.arg.limit = 2
    /\ Len(ret.value) = 2
    /\ Cardinality(ChannelMessages(call.arg.id)) = 3
    /\ \E m, n \in ChannelMessages(call.arg.id) : m.id # n.id /\ m.timestamp = n.timestamp
    /\ \E m, n \in ChannelMessages(call.arg.id) : m.id < n.id /\ m.timestamp > n.timestamp
    /\ \E k \in DOMAIN messages : messages[k].channel_id # call.arg.id

\* C9: get_messages returns the empty list whenever limit <= 0.
C9_NonPositiveLimitEmpty ==
    (call.op = "get_messages" /\ call.arg.limit <= 0) => ret.value = <<>>

----------------------------------------------------------------------------
(* EntityRegistry                                                          *)

\* mutant of FirstMatch: the server_id comparison is left out
FirstMatchAnyServer(d, name, server_id) ==
    LET I == {i \in 1..Len(d) : d[i].name = name}
    IN IF I = {} THEN None ELSE <<d[CHOOSE i \in I : \A j \in I : i <= j]>>

\* for entity in d.values(): if entity.name == name and
\* entity.server_id == server_id: return entity -- the first match in
\* insertion order, None when the loop ends without one
FirstMatch(d, name, server_id) ==
    LET I == {i \in 1..Len(d) : d[i].name = name /\ d[i].server_id = server_id}
    IN IF I = {} THEN None ELSE <<d[CHOOSE i \in I : \A j \in I : i <= j]>>

get_category_by_name(name, server_id) ==
    LET found == FirstMatch(categories, name, server_id)
    IN /\ call' = Call("get_category_by_name", [name |-> name, server_id |-> server_id], None)
       /\ ret' = IF found = None THEN Raise("CategoryNotFoundError") ELSE Return(found)
       /\ UNCHANGED cache

get_channel_by_name(name, server_id) ==
    LET found == FirstMatch(channels, name, server_id)
    IN /\ call' = Call("get_channel_by_name", [name |-> name, server_id |-> server_id], None)
       /\ ret' = IF found = None THEN Raise("ChannelNotFoundError") ELSE Return(found)
       /\ UNCHANGED cache

\* mutant of InCategory: the channel's own id is compared
InCategoryById(d, category_id) ==
    SelectSeq(d, LAMBDA c : c.id = category_id)

\* [c for c in d.values() if c.category_id == category_id]
InCategory(d, category_id) ==
    SelectSeq(d, LAMBDA c : c.category_id = category_id)

get_channels_in_category(category_id) ==
    /\ call' = Call("get_channels_in_category", [id |-> category_id], None)
    /\ ret' = Return(InCategory(channels, category_id))
    /\ UNCHANGED cache

----------------------------------------------------------------------------
(* The registry specification: categories and channels of two servers,     *)
(* with names that repeat, the two name lookups and the category listing.  *)

CategoryNames == {"log", "ops"}

ChannelNames == {"general", "dev"}

RegistryCategoryInputs ==
    [id : CategoryIds, name : CategoryNames, server_id : ServerIds]

RegistryChannelInputs ==
    [id : ChannelIds, name : ChannelNames, category_id : {Null, 1},
     server_id : ServerIds]

RegistrySaveCategory ==
    /\ \E category \in RegistryCategoryInputs : save_category(category)
    /\ UNCHANGED rec

RegistrySaveChannel ==
    /\ \E channel \in RegistryChannelInputs : save_channel(channel)
    /\ UNCHANGED rec

GetCategoryByName ==
    /\ \E name \in CategoryNames, server_id \in ServerIds : get_category_by_name(name, server_id)
    /\ UNCHANGED rec

GetChannelByName ==
    /\ \E name \in ChannelNames, server_id \in ServerIds : get_channel_by_name(name, server_id)
    /\ UNCHANGED rec

GetChannelsInCategory ==
    /\ \E category_id \in CategoryIds : get_channels_in_category(category_id)
    /\ UNCHANGED rec

NextRegistry ==
    \/ RegistrySaveCategory
    \/ RegistrySaveChannel
    \/ GetCategoryByName
    \/ GetChannelByName
    \/ GetChannelsInCategory

SpecRegistry == Init /\ [][NextRegistry]_vars

\* the entities of an insertion-ordered dict with the given name and server
Named(d, name, server_id) ==
    {e \in Range(d) : e.name = name /\ e.server_id = server_id}

\* C10: get_category_by_name and get_channel_by_name return a cached entity
\* with the given name and server_id whenever one is cached, never one of
\* another server, and raise the not-found error exactly when none is.
C10_NameLookup ==
    /\ call.op = "get_category_by_name"
       => IF Named(categories, call.arg.name, call.arg.server_id) # {}
          THEN /\ ret.status = "return"
               /\ Len(ret.value) = 1
               /\ ret.value[1] \in Named(categories, call.arg.name, call.arg.server_id)
          ELSE ret = Raise("CategoryNotFoundError")
    /\ call.op = "get_channel_by_name"
       => IF Named(channels, call.arg.name, call.arg.server_id) # {}
          THEN /\ ret.status = "return"
               /\ Len(ret.value) = 1
               /\ ret.value[1] \in Named(channels, call.arg.name, call.arg.server_id)
          ELSE ret = Raise("ChannelNotFoundError")

\* a category was found by name although a same-named category of the
\* other server was inserted before it
C10_Witness ==
    /\ call.op = "get_category_by_name"
    /\ ret.status = "return"
    /\ Len(categories) = 2
    /\ categories[1].name = call.arg.name
    /\ categories[1].server_id # call.arg.server_id
    /\ ret.value = <<categories[2]>>

\* C11: get_channels_in_category(category_id) returns, without raising,
\* exactly the cached channels whose category_id is the argument, each
\* once: the empty list when there are none, and so when the category is
\* not cached.
C11_ChannelsInCategory ==
    call.op = "get_channels_in_category"
    => /\ ret.status = "return"
       /\ Range(ret.value) = {c \in Range(channels) : c.category_id = call.arg.id}
       /\ Cardinality(Range(ret.value)) = Len(ret.value)
       /\ call.arg.id \notin Keys(categories) => ret.value = <<>>

\* the listing of a category returned one channel of two cached ones, the
\* other, uncategorized one carrying the id the listing was asked for
C11_Witness ==
    /\ call.op = "get_channels_in_category"
    /\ Len(ret.value) = 1
    /\ Len(channels) = 2
    /\ \E i \in 1..Len(channels) :
          channels[i].id = call.arg.id /\ channels[i].category_id = Null

----------------------------------------------------------------------------
(* Templates                                                               *)

ChannelTypes == {"text", "voice", "forum", "announcement"}

\* A datetime.date is its proleptic Gregorian ordinal (0001-01-01 is day 1),
\* the number date + timedelta computes with.

\* year is a leap year
is_leap(year) ==
    year % 4 = 0 /\ (year % 100 # 0 \/ year % 400 = 0)

\* number of days before January 1st of year
days_before_year(year) ==
    LET y == year - 1
    IN y * 365 + (y \div 4) - (y \div 100) + (y \div 400)

\* number of days in month of year
days_in_month(year, month) ==
    IF month = 2 THEN (IF is_leap(year) THEN 29 ELSE 28)
    ELSE IF month \in {4, 6, 9, 11} THEN 30
    ELSE 31

RECURSIVE days_before_month(_, _)

\* number of days in year before the first day of month
days_before_month(year, month) ==
    IF month = 1 THEN 0
    ELSE days_before_month(year, month - 1) + days_in_month(year, month - 1)

\* date(year, month, day)
ymd2ord(year, month, day) ==
    days_before_year(year) + days_before_month(year, month) + day

\* the year, month and day of the date of ordinal n: 400-year, 100-year and
\* 4-year cycles, then the month estimated from the day of the year
ord2ymd(n) ==
    LET n0 == n - 1
        n400 == n0 \div 146097
        r400 == n0 % 146097
        n100 == r400 \div 36524
        r100 == r400 % 36524
        n4 == r100 \div 1461
        r4 == r100 % 1461
        n1 == r4 \div 365
        r1 == r4 % 365
        year == n400 * 400 + n100 * 100 + n4 * 4 + n1 + 1
        estimate == (r1 + 50) \div 32
        month == IF days_before_month(year, estimate) > r1 THEN estimate - 1 ELSE estimate
    IN IF n1 = 4 \/ n100 = 4
       THEN [year |-> year - 1, month |-> 12, day |-> 31]
       ELSE [year |-> year, month |-> month,
             day |-> r1 - days_before_month(year, month) + 1]

\* format(n, "02d") for n >= 0
Pad2(n) ==
    IF n < 10 THEN "0" \o ToString(n) ELSE ToString(n)

\* format(n, "04d") for n >= 0
Pad4(n) ==
    IF n < 10 THEN "000" \o ToString(n)
    ELSE IF n < 100 THEN "00" \o ToString(n)
    ELSE IF n < 1000 THEN "0" \o ToString(n)
    ELSE ToString(n)

\* date.isoformat(): YYYY-MM-DD
isoformat(date) ==
    LET ymd == ord2ymd(date)
    IN Pad4(ymd.year) \o "-" \o Pad2(ymd.month) \o "-" \o Pad2(ymd.day)

\* date.weekday(): Monday is 0, Sunday is 6
weekday(date) ==
    (date + 6) % 7

\* the ordinal of the Monday that starts ISO week 1 of year
isoweek1monday(year) ==
    LET firstday == ymd2ord(year, 1, 1)
        firstweekday == (firstday + 6) % 7
        week1monday == firstday - firstweekday
    IN IF firstweekday > 3 THEN week1monday + 7 ELSE week1monday

\* date.isocalendar() as [year, week, weekday], Monday being weekday 1
isocalendar(date) ==
    LET n == date
        year == ord2ymd(date).year
        week == (n - isoweek1monday(year)) \div 7
        day == (n - isoweek1monday(year)) % 7
    IN IF week < 0
       THEN [year |-> year - 1, week |-> ((n - isoweek1monday(year - 1)) \div 7) + 1,
             weekday |-> ((n - isoweek1monday(year - 1)) % 7) + 1]
       ELSE IF week >= 52 /\ n >= isoweek1monday(year + 1)
       THEN [year |-> year + 1, week |-> 1, weekday |-> day + 1]
       ELSE [year |-> year, week |-> week + 1, weekday |-> day + 1]

\* the names of the model that hold a character outside `allowed`
DisallowedNames ==
    {"q&a", "team-a&b", "team_a&b", "ops-a&b", "ops_a&b"}

\* validate_channel_name: the ValueError it raises, "" when it returns v
validate_channel_name(v) ==
    IF v = "" THEN "ValueError"
    ELSE IF Len(v) > 100 THEN "ValueError"
    ELSE IF v \in DisallowedNames THEN "ValueError"
    ELSE ""

\* TextChannelTemplate(name=name, topic=topic, position=position)
TextChannelTemplate(name, topic, position) ==
    [type |-> "text", name |-> name, topic |-> topic, position |-> position]

\* A topic_generator is a function of the suffix; the model names two:
\* the one of the tests, f"Topic for {suffix}", and a constant one.
TopicGenerators ==
    {"topic_for", "constant"}

\* self.topic_generator(suffix)
topic_generator(g, suffix) ==
    CASE g = "topic_for" -> "Topic for " \o suffix
      [] g = "constant" -> "Team channel"

\* mutant of PrefixedTopic: the generator is applied to the whole name
PrefixedTopicOfName(pattern, suffix) ==
    IF pattern.topic_generator # None
    THEN <<topic_generator(pattern.topic_generator[1],
                           pattern.prefix \o pattern.separator \o suffix)>>
    ELSE None

\* topic = self.topic_generator(suffix) if self.topic_generator else None
PrefixedTopic(pattern, suffix) ==
    IF pattern.topic_generator # None
    THEN <<topic_generator(pattern.topic_generator[1], suffix)>>
    ELSE None

\* PrefixedPattern.generate: for i, suffix in enumerate(self.suffixes), one
\* TextChannelTemplate(name=f"{prefix}{separator}{suffix}", topic, position=i)
PrefixedPattern_generate(pattern) ==
    [k \in 1..Len(pattern.suffixes) |->
        TextChannelTemplate(pattern.prefix \o pattern.separator \o pattern.suffixes[k],
                            PrefixedTopic(pattern, pattern.suffixes[k]),
                            <<k - 1>>)]

\* mutant of DailyLogWindow: days_ahead and days_behind change places
DailyLogWindowSwapped(pattern, today) ==
    [start |-> today - pattern.days_ahead,
     end |-> today + pattern.days_behind]

\* start = today - timedelta(days=self.days_behind)
\* end = today + timedelta(days=self.days_ahead)
DailyLogWindow(pattern, today) ==
    [start |-> today - pattern.days_behind,
     end |-> today + pattern.days_ahead]

\* while current <= end: channels.append(TextChannelTemplate(
\* name=current.isoformat(), ...)); current += timedelta(days=1)
\* The k-th pass of the loop runs with current = start + (k - 1) days, and
\* there is no pass when start is after end.
DailyLogLoop(start, end, topic) ==
    IF start <= end
    THEN [k \in 1..(end - start + 1) |->
             TextChannelTemplate(isoformat(start + (k - 1)), topic, None)]
    ELSE <<>>

\* DailyLogPattern.generate, with today = date.today()
DailyLogPattern_generate(pattern, today) ==
    DailyLogLoop(DailyLogWindow(pattern, today).start, DailyLogWindow(pattern, today).end,
                 pattern.topic)

\* mutant of WeekDayWindow: isoweekday() (Monday is 1) instead of weekday()
WeekDayWindowIso(pattern, today) ==
    [start |-> today - (pattern.weeks_behind * 7 + weekday(today) + 1),
     end |-> today + (pattern.weeks_ahead * 7 + (6 - (weekday(today) + 1)))]

\* days_behind = self.weeks_behind * 7 + today.weekday()
\* days_ahead = self.weeks_ahead * 7 + (6 - today.weekday())
\* start = today - timedelta(days=days_behind)
\* end = today + timedelta(days=days_ahead)
WeekDayWindow(pattern, today) ==
    [start |-> today - (pattern.weeks_behind * 7 + weekday(today)),
     end |-> today + (pattern.weeks_ahead * 7 + (6 - weekday(today)))]

\* while current <= end: name = f"{week_num:02d}-{day_num:02d}" of
\* current.isocalendar(); current += timedelta(days=1)
\* The k-th pass of the loop runs with current = start + (k - 1) days, and
\* there is no pass when start is after end.
WeekDayLoop(start, end, topic) ==
    IF start <= end
    THEN [k \in 1..(end - start + 1) |->
             LET iso == isocalendar(start + (k - 1))
             IN TextChannelTemplate(Pad2(iso.week) \o "-" \o Pad2(iso.weekday),
                                    topic, None)]
    ELSE <<>>

\* WeekDayPattern.generate, with today = date.today()
WeekDayPattern_generate(pattern, today) ==
    WeekDayLoop(WeekDayWindow(pattern, today).start, WeekDayWindow(pattern, today).end,
                pattern.topic)

\* pattern.generate() of a ChannelPattern, dispatched on its class
generate(pattern, today) ==
    CASE pattern.kind = "prefixed" -> PrefixedPattern_generate(pattern)
      [] pattern.kind = "daily_log" -> DailyLogPattern_generate(pattern, today)
      [] pattern.kind = "weekday" -> WeekDayPattern_generate(pattern, today)

\* the ValidationError pattern.generate() raises when a generated name is
\* no ChannelName, "" when it returns
generate_error(pattern, today) ==
    LET generated == generate(pattern, today)
    IN IF \E i \in 1..Len(generated) : validate_channel_name(generated[i].name) # ""
       THEN "ValidationError"
       ELSE ""

RECURSIVE ExpandPatternsReversed(_, _)

\* mutant of ExpandPatterns: the patterns are taken last to first
ExpandPatternsReversed(patterns, today) ==
    IF patterns = <<>>
    THEN <<>>
    ELSE ExpandPatternsReversed(Tail(patterns), today) \o generate(Head(patterns), today)

RECURSIVE ExpandPatterns(_, _)

\* for pattern in self.patterns: expanded_channels.extend(pattern.generate())
ExpandPatterns(patterns, today) ==
    IF patterns = <<>>
    THEN <<>>
    ELSE generate(Head(patterns), today) \o ExpandPatterns(Tail(patterns), today)

\* the exception resolve_patterns raises, "" when it returns
resolve_patterns_error(t, today) ==
    IF \E i \in 1..Len(t.patterns) : generate_error(t.patterns[i], today) # ""
    THEN "ValidationError"
    ELSE ""

\* mutant of resolve_patterns: the patterns are not cleared
resolve_patterns_keep(t, today) ==
    [categories |-> t.categories,
     uncategorized_channels |->
        t.uncategorized_channels \o ExpandPatterns(t.patterns, today),
     patterns |-> t.patterns]

\* ServerTemplate.resolve_patterns, with today = date.today()
resolve_patterns(t, today) ==
    [categories |-> t.categories,
     uncategorized_channels |->
        t.uncategorized_channels \o ExpandPatterns(t.patterns, today),
     patterns |-> <<>>]

----------------------------------------------------------------------------
(* Reconciler                                                              *)

\* most reconcile runs of one behaviour
MaxRuns == 2

\* one registry, remote or store call of a run: its name, the entity name,
\* the id found, created or saved (Null when none), the category_id /
\* parent_id passed, whether it returned (found, for a lookup), and the
\* index of the category template it was made for
Event(ev, name, id, parent_id, ok) ==
    [ev |-> ev, name |-> name, id |-> id, parent_id |-> parent_id, ok |-> ok, at |-> ci]

\* the channel templates iterated at category index c; the index past the
\* last category stands for resolved.uncategorized_channels
ChannelsAt(r, c) ==
    IF c <= Len(r.categories) THEN r.categories[c].channels ELSE r.uncategorized_channels

\* the loop `for category_template in resolved.categories` at index c,
\* followed by the loop over resolved.uncategorized_channels
NextCategory(r, c) ==
    IF c <= Len(r.categories) THEN [pc |-> "category", ci |-> c, chi |-> 0]
    ELSE IF Len(r.uncategorized_channels) > 0 THEN [pc |-> "channel", ci |-> c, chi |-> 1]
    ELSE [pc |-> "done", ci |-> c, chi |-> 0]

\* mutant of NextChannel: the run ends after the first channel loop
NextChannelStop(r, c, h) ==
    IF h <= Len(ChannelsAt(r, c)) THEN [pc |-> "channel", ci |-> c, chi |-> h]
    ELSE [pc |-> "done", ci |-> c, chi |-> 0]

\* the loop `for channel_template in template.channels` at index h of
\* category index c, falling through to the next category when exhausted
NextChannel(r, c, h) ==
    IF h <= Len(ChannelsAt(r, c)) THEN [pc |-> "channel", ci |-> c, chi |-> h]
    ELSE IF c <= Len(r.categories) THEN NextCategory(r, c + 1)
    ELSE [pc |-> "done", ci |-> c, chi |-> 0]

\* control moves to position p; reaching the end logs "Reconciliation
\* complete" and returns
Goto(p) ==
    /\ pc' = p.pc
    /\ ci' = p.ci
    /\ chi' = p.chi
    /\ outcomes' = IF p.pc = "done" THEN Append(outcomes, "done") ELSE outcomes

\* except Exception as e: raise ReconciliationError(..., cause=e)
Abort(cause) ==
    /\ pc' = "failed"
    /\ raised' = [type |-> "ReconciliationError", cause |-> cause]
    /\ outcomes' = Append(outcomes, "failed")
    /\ UNCHANGED <<ci, chi>>

\* mutant of ParentId: every channel is reconciled as uncategorized
ParentIdNone ==
    Null

\* the category_id argument of _reconcile_channel: category.id inside
\* _reconcile_category, None for the uncategorized channels
ParentId ==
    IF ci <= Len(resolved.categories) THEN cur_category_id ELSE Null

\* mutant of NewRemoteId: the id of the first remote object is given again
NewRemoteIdSame ==
    IF remote = <<>> THEN Len(remote) + 1 ELSE remote[1].id

\* the id the remote workspace gives its next object
NewRemoteId ==
    Len(remote) + 1

\* Reconciler.reconcile is called on the day today: the patterns are
\* resolved; a pattern that cannot generate its channels ends the run
reconcile_start(today) ==
    /\ pc \in {"idle", "done", "failed"}
    /\ run < MaxRuns
    /\ run' = run + 1
    /\ log' = <<>>
    /\ discord_obj' = None
    /\ cur_category_id' = Null
    /\ IF resolve_patterns_error(template, today) # ""
       THEN /\ Abort(resolve_patterns_error(template, today))
            /\ UNCHANGED resolved
       ELSE /\ resolved' = resolve_patterns(template, today)
            /\ raised' = NoError
            /\ Goto(NextCategory(resolve_patterns(template, today), 1))
    /\ UNCHANGED <<cache, call, ret, template, remote>>
    /\ UNCHANGED disc
    /\ UNCHANGED ing
    /\ UNCHANGED sinks
    /\ UNCHANGED conc

\* _reconcile_category: the registry lookup, and the channel loop on a hit
reconcile_category_lookup ==
    /\ pc = "category"
    /\ get_category_by_name(resolved.categories[ci].name, ServerId)
    /\ IF ret'.status = "return"
       THEN /\ cur_category_id' = ret'.value[1].id
            /\ log' = Append(log, Event("get_category_by_name", resolved.categories[ci].name,
                                         ret'.value[1].id, Null, TRUE))
            /\ Goto(NextChannel(resolved, ci, 1))
       ELSE /\ pc' = "create_category"
            /\ log' = Append(log, Event("get_category_by_name", resolved.categories[ci].name,
                                         Null, Null, FALSE))
            /\ UNCHANGED <<ci, chi, cur_category_id, outcomes>>
    /\ UNCHANGED <<template, remote, resolved, discord_obj, raised, run>>
    /\ UNCHANGED disc
    /\ UNCHANGED ing
    /\ UNCHANGED sinks
    /\ UNCHANGED conc

\* guild.create_category(name=template.name) returns the new remote category
create_category_returns ==
    /\ pc = "create_category"
    /\ LET obj == [kind |-> "category", id |-> NewRemoteId,
                   name |-> resolved.categories[ci].name, parent_id |-> Null]
       IN /\ remote' = Append(remote, obj)
          /\ discord_obj' = <<obj>>
          /\ log' = Append(log, Event("create_category", obj.name, obj.id, Null, TRUE))
    /\ pc' = "save_category"
    /\ UNCHANGED <<cache, call, ret, template, resolved, ci, chi, cur_category_id,
                   raised, run, outcomes>>
    /\ UNCHANGED disc
    /\ UNCHANGED ing
    /\ UNCHANGED sinks
    /\ UNCHANGED conc

\* guild.create_category raises: the exception leaves reconcile wrapped
create_category_raises ==
    /\ pc = "create_category"
    /\ log' = Append(log, Event("create_category", resolved.categories[ci].name,
                                 Null, Null, FALSE))
    /\ Abort("RemoteError")
    /\ UNCHANGED <<cache, call, ret, template, remote, resolved, cur_category_id,
                   discord_obj, run>>
    /\ UNCHANGED disc
    /\ UNCHANGED ing
    /\ UNCHANGED sinks
    /\ UNCHANGED conc

\* _reconcile_category: Category(...) from the remote object is saved, then
\* the channel loop starts
reconcile_category_save ==
    /\ pc = "save_category"
    /\ LET category == [id |-> discord_obj[1].id, name |-> discord_obj[1].name,
                        server_id |-> ServerId]
       IN /\ save_category(category)
          /\ cur_category_id' = category.id
          /\ log' = Append(log, Event("save_category", category.name, category.id, Null, TRUE))
    /\ Goto(NextChannel(resolved, ci, 1))
    /\ UNCHANGED <<template, remote, resolved, discord_obj, raised, run>>
    /\ UNCHANGED disc
    /\ UNCHANGED ing
    /\ UNCHANGED sinks
    /\ UNCHANGED conc

\* mutant of reconcile_channel_lookup: the channel is looked up among the
\* channels of the template's own category
reconcile_channel_lookup_in_category ==
    /\ pc = "channel"
    /\ LET t == ChannelsAt(resolved, ci)[chi]
           found == FirstMatch(InCategory(channels, ParentId), t.name, ServerId)
       IN /\ call' = Call("get_channel_by_name", [name |-> t.name, server_id |-> ServerId],
                          None)
          /\ ret' = IF found = None THEN Raise("ChannelNotFoundError") ELSE Return(found)
          /\ log' = Append(log, Event("get_channel_by_name", t.name,
                                       IF found = None THEN Null ELSE found[1].id,
                                       ParentId, found # None))
          /\ IF found = None /\ t.type = "text"
             THEN /\ pc' = "create_channel"
                  /\ UNCHANGED <<ci, chi, outcomes>>
             ELSE Goto(NextChannel(resolved, ci, chi + 1))
    /\ UNCHANGED <<cache, template, remote, resolved, cur_category_id, discord_obj, raised,
                   run>>
    /\ UNCHANGED disc
    /\ UNCHANGED ing
    /\ UNCHANGED sinks
    /\ UNCHANGED conc

\* _reconcile_channel: the registry lookup; a miss leads to a creation call
\* only for a TextChannelTemplate
reconcile_channel_lookup ==
    /\ pc = "channel"
    /\ LET t == ChannelsAt(resolved, ci)[chi]
       IN /\ get_channel_by_name(t.name, ServerId)
          /\ IF ret'.status = "return"
             THEN /\ log' = Append(log, Event("get_channel_by_name", t.name,
                                               ret'.value[1].id, ParentId, TRUE))
                  /\ Goto(NextChannel(resolved, ci, chi + 1))
             ELSE /\ log' = Append(log, Event("get_channel_by_name", t.name,
                                               Null, ParentId, FALSE))
                  /\ IF t.type = "text"
                     THEN /\ pc' = "create_channel"
                          /\ UNCHANGED <<ci, chi, outcomes>>
                     ELSE Goto(NextChannel(resolved, ci, chi + 1))
    /\ UNCHANGED <<template, remote, resolved, cur_category_id, discord_obj, raised, run>>
    /\ UNCHANGED disc
    /\ UNCHANGED ing
    /\ UNCHANGED sinks
    /\ UNCHANGED conc

\* guild.create_text_channel(name, parent_id=category_id, topic) returns
create_text_channel_returns ==
    /\ pc = "create_channel"
    /\ LET obj == [kind |-> "text", id |-> NewRemoteId,
                   name |-> ChannelsAt(resolved, ci)[chi].name, parent_id |-> ParentId]
       IN /\ remote' = Append(remote, obj)
          /\ discord_obj' = <<obj>>
          /\ log' = Append(log, Event("create_text_channel", obj.name, obj.id, ParentId, TRUE))
    /\ pc' = "save_channel"
    /\ UNCHANGED <<cache, call, ret, template, resolved, ci, chi, cur_category_id,
                   raised, run, outcomes>>
    /\ UNCHANGED disc
    /\ UNCHANGED ing
    /\ UNCHANGED sinks
    /\ UNCHANGED conc

\* mutant of create_text_channel_raises: the failure is logged and the
\* loop goes on with the next channel template
create_text_channel_raises_skip ==
    /\ pc = "create_channel"
    /\ log' = Append(log, Event("create_text_channel", ChannelsAt(resolved, ci)[chi].name,
                                 Null, ParentId, FALSE))
    /\ Goto(NextChannel(resolved, ci, chi + 1))
    /\ UNCHANGED <<cache, call, ret, template, remote, resolved, cur_category_id,
                   discord_obj, raised, run>>
    /\ UNCHANGED disc
    /\ UNCHANGED ing
    /\ UNCHANGED sinks
    /\ UNCHANGED conc

\* guild.create_text_channel raises: the exception leaves reconcile wrapped
create_text_channel_raises ==
    /\ pc = "create_channel"
    /\ log' = Append(log, Event("create_text_channel", ChannelsAt(resolved, ci)[chi].name,
                                 Null, ParentId, FALSE))
    /\ Abort("RemoteError")
    /\ UNCHANGED <<cache, call, ret, template, remote, resolved, cur_category_id,
                   discord_obj, run>>
    /\ UNCHANGED disc
    /\ UNCHANGED ing
    /\ UNCHANGED sinks
    /\ UNCHANGED conc

\* mutant of reconcile_channel_save: the created channel is not saved
reconcile_channel_save_unsaved ==
    /\ pc = "save_channel"
    /\ log' = Append(log, Event("save_channel", discord_obj[1].name, discord_obj[1].id,
                                 ParentId, TRUE))
    /\ Goto(NextChannel(resolved, ci, chi + 1))
    /\ UNCHANGED <<cache, call, ret, template, remote, resolved, cur_category_id,
                   discord_obj, raised, run>>
    /\ UNCHANGED disc
    /\ UNCHANGED ing
    /\ UNCHANGED sinks
    /\ UNCHANGED conc

\* _reconcile_channel: Channel(...) from the remote object is saved; a
\* StateError of the store leaves reconcile wrapped
reconcile_channel_save ==
    /\ pc = "save_channel"
    /\ LET channel == [id |-> discord_obj[1].id, name |-> discord_obj[1].name,
                       category_id |-> ParentId, server_id |-> ServerId]
       IN /\ save_channel(channel)
          /\ log' = Append(log, Event("save_channel", channel.name, channel.id, ParentId,
                                       ret'.status = "return"))
    /\ IF ret'.status = "raise"
       THEN Abort(ret'.error)
       ELSE /\ Goto(NextChannel(resolved, ci, chi + 1))
            /\ UNCHANGED raised
    /\ UNCHANGED <<template, remote, resolved, cur_category_id, discord_obj, run>>
    /\ UNCHANGED disc
    /\ UNCHANGED ing
    /\ UNCHANGED sinks
    /\ UNCHANGED conc

----------------------------------------------------------------------------
(* The reconcile specification: a Bot with a template, an empty cache and  *)
(* an empty remote workspace; reconcile runs follow one another, and any   *)
(* remote creation call may fail.                                          *)

ChannelTemplateInputs ==
    [type : {"text"}, name : ChannelNames]
        \cup [type : ChannelTypes \ {"text"}, name : {"lounge"}]

ChannelListInputs ==
    {<<>>} \cup {<<c>> : c \in ChannelTemplateInputs}

CategoryTemplateInputs ==
    [name : CategoryNames, channels : ChannelListInputs]

CategoryListInputs ==
    {<<>>} \cup {<<c>> : c \in CategoryTemplateInputs}
           \cup {<<c, d>> : c \in CategoryTemplateInputs, d \in CategoryTemplateInputs}

PatternInputs ==
    [kind : {"prefixed"}, prefix : {"team"}, separator : {"-"},
     suffixes : {<<"a">>, <<"a", "b">>}, topic_generator : {None}]

PatternListInputs ==
    {<<>>} \cup {<<p>> : p \in PatternInputs}

TemplateInputs ==
    [categories : CategoryListInputs, uncategorized_channels : ChannelListInputs,
     patterns : PatternListInputs]

InitReconcile ==
    /\ InitCache
    /\ InitReconciler
    /\ InitDiscovery
    /\ InitIngest
    /\ InitSinks
    /\ InitConc
    /\ template \in TemplateInputs

\* the days on which the bot runs
Todays ==
    {ymd2ord(2024, 2, 27), ymd2ord(2024, 12, 30), ymd2ord(2026, 11, 5)}

ReconcileStart ==
    \E today \in Todays : reconcile_start(today)

NextReconcile ==
    \/ ReconcileStart
    \/ reconcile_category_lookup
    \/ create_category_returns
    \/ create_category_raises
    \/ reconcile_category_save
    \/ reconcile_channel_lookup
    \/ create_text_channel_returns
    \/ create_text_channel_raises
    \/ reconcile_channel_save

SpecReconcile == InitReconcile /\ [][NextReconcile]_vars

----------------------------------------------------------------------------
(* Claims about the reconciler                                             *)

CreateEvents == {"create_category", "create_text_channel"}

ChannelEvents == {"get_channel_by_name", "create_text_channel", "save_channel"}

\* C3: after a reconcile run that completed without error, a later run
\* with the same template issues no remote creation call; and over any
\* number of sequential runs no name is created remotely more than once.
C3_SequentialRunsIdempotent ==
    /\ (\E k \in 1..Len(outcomes) : outcomes[k] = "done" /\ k < run)
       => \A j \in 1..Len(log) : log[j].ev \notin CreateEvents
    /\ \A i, j \in 1..Len(remote) :
          (i # j /\ remote[i].kind = remote[j].kind) => remote[i].name # remote[j].name

\* a second run has completed after a first complete run that created a
\* category and channels
C3_Witness ==
    /\ outcomes = <<"done", "done">>
    /\ pc = "done"
    /\ Len(log) >= 3
    /\ \E i, j \in 1..Len(remote) : remote[i].kind = "category" /\ remote[j].kind = "text"

\* C4: after a reconcile run that returns without raising, every category
\* template and every channel template of the resolved template, of every
\* channel kind, has a same-named entity of the server in the cache.
C4_AllTemplatesCached ==
    pc = "done"
    => /\ \A c \in 1..Len(resolved.categories) :
             Named(categories, resolved.categories[c].name, ServerId) # {}
       /\ \A c \in 1..(Len(resolved.categories) + 1) :
             \A h \in 1..Len(ChannelsAt(resolved, c)) :
                Named(channels, ChannelsAt(resolved, c)[h].name, ServerId) # {}

\* C5: when a remote creation call fails, the run raises a
\* ReconciliationError wrapping the cause, no further call is issued in
\* that run, and what the run created and cached before is still cached.
C5_FailureAbortsWithoutRollback ==
    /\ \A k \in 1..Len(log) :
          (log[k].ev \in CreateEvents /\ ~log[k].ok)
          => /\ k = Len(log)
             /\ pc = "failed"
             /\ raised = [type |-> "ReconciliationError", cause |-> "RemoteError"]
             /\ outcomes[Len(outcomes)] = "failed"
    /\ \A k \in 1..Len(log) :
          /\ log[k].ev = "save_category"
             => [id |-> log[k].id, name |-> log[k].name, server_id |-> ServerId]
                   \in Range(categories)
          /\ log[k].ev = "save_channel"
             => [id |-> log[k].id, name |-> log[k].name, category_id |-> log[k].parent_id,
                 server_id |-> ServerId] \in Range(channels)

\* a run failed on a creation call after it had created and cached a
\* category and a channel
C5_Witness ==
    /\ pc = "failed"
    /\ Len(log) > 0
    /\ log[Len(log)].ev \in CreateEvents
    /\ ~log[Len(log)].ok
    /\ \E k \in 1..Len(log) : log[k].ev = "save_category"
    /\ \E k \in 1..Len(log) : log[k].ev = "save_channel"

\* the events of the current run made for the category template at index c
EventsAt(c) ==
    {k \in 1..Len(log) : log[k].at = c}

\* C6: on a registry miss for a category template the reconciler issues
\* exactly one create_category for that name, then saves the created
\* category, and only then ensures the category's channel templates, each
\* with the created id as category_id; on a hit it issues no creation call
\* and the channel templates get the found category's id.
C6_EnsureCategoryOrder ==
    \A c \in 1..Len(resolved.categories) :
       EventsAt(c) # {}
       => LET first == CHOOSE k \in EventsAt(c) : \A j \in EventsAt(c) : k <= j
              creates == {k \in EventsAt(c) : log[k].ev = "create_category"}
              chans == {k \in EventsAt(c) : log[k].ev \in ChannelEvents}
              lookups == {k \in EventsAt(c) : log[k].ev = "get_channel_by_name"}
          IN /\ log[first].ev = "get_category_by_name"
             /\ log[first].name = resolved.categories[c].name
             /\ {k \in EventsAt(c) : log[k].ev = "get_category_by_name"} = {first}
             /\ IF log[first].ok
                THEN /\ creates = {}
                     /\ \A k \in chans : log[k].parent_id = log[first].id
                ELSE /\ creates \subseteq {first + 1}
                     /\ (creates = {}) => (first = Len(log) /\ pc = "create_category")
                     /\ \A k \in creates : log[k].name = resolved.categories[c].name
                     /\ \A k \in creates :
                           log[k].ok
                           => /\ (k = Len(log)) => pc = "save_category"
                              /\ (k < Len(log))
                                 => /\ log[k + 1].ev = "save_category"
                                    /\ log[k + 1].id = log[k].id
                                    /\ log[k + 1].at = c
                                    /\ log[k].id \in Keys(categories)
                     /\ \A k \in chans :
                           /\ k > first + 2
                           /\ log[first + 1].ok
                           /\ log[k].parent_id = log[first + 1].id
             /\ (ci > c \/ pc = "done")
                => Cardinality(lookups) = Len(resolved.categories[c].channels)

\* a complete run created one category and a channel under the created id,
\* and found another category and created a channel under the found id
C6_Witness ==
    /\ pc = "done"
    /\ \E k \in 1..Len(log) :
          /\ log[k].ev = "get_category_by_name"
          /\ ~log[k].ok
          /\ \E j \in 1..Len(log) :
                /\ log[j].ev = "create_text_channel"
                /\ log[j].at = log[k].at
                /\ log[j].parent_id = log[k + 1].id
    /\ \E k \in 1..Len(log) :
          /\ log[k].ev = "get_category_by_name"
          /\ log[k].ok
          /\ \E j \in 1..Len(log) :
                /\ log[j].ev = "create_text_channel"
                /\ log[j].at = log[k].at
                /\ log[j].parent_id = log[k].id

CategoryEvents == {"get_category_by_name", "create_category", "save_category"}

\* C30 as stated: within one run no category template is ensured after a
\* channel template has been ensured or created.
C30_CategoriesBeforeAllChannels ==
    \A i, j \in 1..Len(log) :
       i < j => ~(log[i].ev \in ChannelEvents /\ log[j].ev \in CategoryEvents)

\* C30: within one run the patterns are expanded before any entity is
\* ensured; the category templates are taken in template order, each one
\* ensured and then followed by its own channel templates before the next
\* category template is looked at; the uncategorized channel templates come
\* after every category and every categorized channel, with no category_id.
C30_PhasesNested ==
    LET n == Len(resolved.categories)
    IN /\ Len(log) > 0 => \E today \in Todays : resolved = resolve_patterns(template, today)
       /\ \A i, j \in 1..Len(log) :
             i < j
             => /\ log[i].at <= log[j].at
                /\ log[i].at = log[j].at
                   => ~(log[i].ev \in ChannelEvents /\ log[j].ev \in CategoryEvents)
       /\ \A k \in 1..Len(log) :
             /\ log[k].ev \in CategoryEvents => log[k].at <= n
             /\ (log[k].ev \in ChannelEvents /\ log[k].at > n) => log[k].parent_id = Null
       /\ \A c \in 1..(n + 1) :
             (pc = "done" \/ \E k \in 1..Len(log) : log[k].at > c)
             => /\ c <= n => \E k \in EventsAt(c) : log[k].ev = "get_category_by_name"
                /\ Cardinality({k \in EventsAt(c) : log[k].ev = "get_channel_by_name"})
                      = Len(ChannelsAt(resolved, c))

\* a complete run saved a channel of the first category before it looked
\* the second category up, and ensured an uncategorized channel last
C30_Witness ==
    /\ pc = "done"
    /\ Len(resolved.categories) = 2
    /\ \E i, j \in 1..Len(log) :
          /\ i < j
          /\ log[i].ev = "save_channel"
          /\ log[i].at = 1
          /\ log[j].ev = "get_category_by_name"
          /\ log[j].at = 2
    /\ log[Len(log)].ev \in ChannelEvents
    /\ log[Len(log)].at = 3

----------------------------------------------------------------------------
(* DiscoveryEngine                                                         *)

\* isinstance(channel, GuildCategory)
IsGuildCategory(obj) ==
    obj.kind = "category"

\* mutant of IsGuildText: every channel that is not a category is taken
IsNotGuildCategory(obj) ==
    obj.kind # "category"

\* isinstance(channel, GuildText)
IsGuildText(obj) ==
    obj.kind = "text"

\* Category(id=int(channel.id), name=str(channel.name), server_id=self.server_id)
CategoryOf(obj) ==
    [id |-> obj.id, name |-> obj.name, server_id |-> ServerId]

\* mutant of CategoryIdOf: a parent that is not a cached category becomes None
CategoryIdOfResolved(parent_id) ==
    IF parent_id \in Keys(categories) THEN parent_id ELSE Null

\* int(parent_id) if parent_id else None
CategoryIdOf(parent_id) ==
    IF parent_id # Null THEN parent_id ELSE Null

\* Channel(id=int(channel.id), name=str(channel.name), category_id=...,
\* server_id=self.server_id)
ChannelOf(obj) ==
    [id |-> obj.id, name |-> obj.name, category_id |-> CategoryIdOf(obj.parent_id),
     server_id |-> ServerId]

\* mutant of DiscordAPIError: the cause is re-raised as it is
Unwrapped(cause) ==
    [type |-> cause, cause |-> ""]

\* raise DiscordAPIError("Failed to discover ...", cause=e) from e
DiscordAPIError(cause) ==
    [type |-> "DiscordAPIError", cause |-> cause]

\* mutant of discover_categories_start: the cached categories are dropped
\* before the guild is read, so that stale ones do not survive
discover_categories_start_prune ==
    /\ dpc \in {"idle", "returned", "raised"}
    /\ dop' = "discover_categories"
    /\ dpc' = "loop"
    /\ di' = 1
    /\ discovered' = <<>>
    /\ raised' = NoError
    /\ categories' = <<>>
    /\ UNCHANGED <<channels, users, messages, call, ret, template, remote, pc, resolved,
                   ci, chi, cur_category_id, discord_obj, log, run, outcomes>>
    /\ UNCHANGED ing
    /\ UNCHANGED sinks
    /\ UNCHANGED conc

\* DiscoveryEngine.discover_categories is called
discover_categories_start ==
    /\ dpc \in {"idle", "returned", "raised"}
    /\ dop' = "discover_categories"
    /\ dpc' = "loop"
    /\ di' = 1
    /\ discovered' = <<>>
    /\ raised' = NoError
    /\ UNCHANGED <<cache, call, ret, template, remote, pc, resolved, ci, chi,
                   cur_category_id, discord_obj, log, run, outcomes>>
    /\ UNCHANGED ing
    /\ UNCHANGED sinks
    /\ UNCHANGED conc

\* DiscoveryEngine.discover_channels is called
discover_channels_start ==
    /\ dpc \in {"idle", "returned", "raised"}
    /\ dop' = "discover_channels"
    /\ dpc' = "loop"
    /\ di' = 1
    /\ discovered' = <<>>
    /\ raised' = NoError
    /\ UNCHANGED <<cache, call, ret, template, remote, pc, resolved, ci, chi,
                   cur_category_id, discord_obj, log, run, outcomes>>
    /\ UNCHANGED ing
    /\ UNCHANGED sinks
    /\ UNCHANGED conc

\* one pass of discover_categories' loop over guild.channels
discover_categories_step ==
    /\ dop = "discover_categories"
    /\ dpc = "loop"
    /\ di <= Len(remote)
    /\ IF IsGuildCategory(remote[di])
       THEN /\ save_category(CategoryOf(remote[di]))
            /\ discovered' = Append(discovered, CategoryOf(remote[di]))
       ELSE UNCHANGED <<cache, call, ret, discovered>>
    /\ di' = di + 1
    /\ UNCHANGED <<dop, dpc, template, remote, pc, resolved, ci, chi, cur_category_id,
                   discord_obj, raised, log, run, outcomes>>
    /\ UNCHANGED ing
    /\ UNCHANGED sinks
    /\ UNCHANGED conc

\* mutant of discover_channels_step: a failing item is logged and skipped
discover_channels_step_skip ==
    /\ dop = "discover_channels"
    /\ dpc = "loop"
    /\ di <= Len(remote)
    /\ IF ~IsGuildText(remote[di])
       THEN UNCHANGED <<cache, call, ret, discovered>>
       ELSE IF validate_channel_name(remote[di].name) # ""
       THEN UNCHANGED <<cache, call, ret, discovered>>
       ELSE /\ save_channel(ChannelOf(remote[di]))
            /\ discovered' = IF ret'.status = "raise" THEN discovered
                             ELSE Append(discovered, ChannelOf(remote[di]))
    /\ di' = di + 1
    /\ UNCHANGED <<dop, dpc, template, remote, pc, resolved, ci, chi, cur_category_id,
                   discord_obj, raised, log, run, outcomes>>
    /\ UNCHANGED ing
    /\ UNCHANGED sinks
    /\ UNCHANGED conc

\* one pass of discover_channels' loop over guild.channels: an object that
\* is not a text channel is passed over; Channel(...) may fail validation
\* and save_channel may raise StateError, and either leaves the method
\* wrapped in a DiscordAPIError
discover_channels_step ==
    /\ dop = "discover_channels"
    /\ dpc = "loop"
    /\ di <= Len(remote)
    /\ IF ~IsGuildText(remote[di])
       THEN /\ di' = di + 1
            /\ UNCHANGED <<cache, call, ret, discovered, dpc, raised>>
       ELSE IF validate_channel_name(remote[di].name) # ""
       THEN /\ dpc' = "raised"
            /\ raised' = DiscordAPIError("ValidationError")
            /\ UNCHANGED <<cache, call, ret, discovered, di>>
       ELSE /\ save_channel(ChannelOf(remote[di]))
            /\ IF ret'.status = "raise"
               THEN /\ dpc' = "raised"
                    /\ raised' = DiscordAPIError(ret'.error)
                    /\ UNCHANGED <<discovered, di>>
               ELSE /\ discovered' = Append(discovered, ChannelOf(remote[di]))
                    /\ di' = di + 1
                    /\ UNCHANGED <<dpc, raised>>
    /\ UNCHANGED <<dop, template, remote, pc, resolved, ci, chi, cur_category_id,
                   discord_obj, log, run, outcomes>>
    /\ UNCHANGED ing
    /\ UNCHANGED sinks
    /\ UNCHANGED conc

\* the loop is exhausted: the method logs the count and returns its list
discover_return ==
    /\ dpc = "loop"
    /\ di > Len(remote)
    /\ dpc' = "returned"
    /\ UNCHANGED <<cache, call, ret, template, remote, pc, resolved, ci, chi,
                   cur_category_id, discord_obj, raised, log, run, outcomes, dop, di,
                   discovered>>
    /\ UNCHANGED ing
    /\ UNCHANGED sinks
    /\ UNCHANGED conc

----------------------------------------------------------------------------
(* The discovery specification: a guild of categories, text channels       *)
(* (with a parent category or none, one of them with a name the Channel    *)
(* model rejects) and voice channels; the two discovery methods are called *)
(* one after the other, in any order, any number of times.                 *)

\* most objects of a guild
MaxGuild == 3

GuildShapes ==
    [kind : {"category"}, name : {"log"}, parent_id : {Null}]
        \cup [kind : {"text"}, name : {"general", "q&a"}, parent_id : {Null} \cup (1..MaxGuild)]
        \cup [kind : {"voice"}, name : {"lounge"}, parent_id : {Null}]

\* guild.channels: the object at position i has id i, and a parent
\* reference names a category of the guild
GuildInputs ==
    UNION {{[i \in 1..n |-> [kind |-> g[i].kind, id |-> i, name |-> g[i].name,
                              parent_id |-> g[i].parent_id]] :
               g \in {h \in [1..n -> GuildShapes] :
                         \A i \in 1..n :
                            h[i].parent_id # Null
                            => (h[i].parent_id \in 1..n /\ h[h[i].parent_id].kind = "category")}} :
           n \in 0..MaxGuild}

InitDiscover ==
    /\ InitCache
    /\ InitRun
    /\ InitDiscovery
    /\ InitIngest
    /\ InitSinks
    /\ InitConc
    /\ template = EmptyTemplate
    /\ remote \in GuildInputs

NextDiscover ==
    \/ discover_categories_start
    \/ discover_channels_start
    \/ discover_categories_step
    \/ discover_channels_step
    \/ discover_return

SpecDiscover == InitDiscover /\ [][NextDiscover]_vars

----------------------------------------------------------------------------
(* Claims about discovery                                                  *)

\* the text channel at position di of guild.channels, reached by the loop
\* of discover_channels
AtTextChannel ==
    /\ dop = "discover_channels"
    /\ dpc = "loop"
    /\ di <= Len(remote)
    /\ remote[di].kind = "text"

\* the parent reference of the object at position di names no cached category
ParentUnresolved ==
    /\ remote[di].parent_id # Null
    /\ remote[di].parent_id \notin Keys(categories)

C14_UnresolvedParentStoredNull ==
    [][(AtTextChannel /\ remote[di].name \notin DisallowedNames /\ ParentUnresolved)
       => /\ dpc' = "loop"
          /\ \E c \in Range(channels') : c.id = remote[di].id /\ c.category_id = Null]_vars

\* C14 as amended: discover_channels stores a text channel that has no
\* parent reference with category_id = null; on a text channel whose parent
\* reference names no cached category it raises the DiscordAPIError that
\* wraps the store's StateError, and does not store the channel.
C14_UnresolvedParentRaises ==
    [][/\ (AtTextChannel /\ remote[di].name \notin DisallowedNames /\ ParentUnresolved)
          => /\ dpc' = "raised"
             /\ raised' = [type |-> "DiscordAPIError", cause |-> "StateError"]
             /\ UNCHANGED cache
       /\ (AtTextChannel /\ remote[di].name \notin DisallowedNames
              /\ remote[di].parent_id = Null)
          => /\ dpc' = "loop"
             /\ \E c \in Range(channels') : c.id = remote[di].id /\ c.category_id = Null]_vars

\* discover_channels has raised on a channel whose parent is a category of
\* the guild that is not cached, and the channel is not cached
C14_Witness ==
    /\ dop = "discover_channels"
    /\ dpc = "raised"
    /\ raised.cause = "StateError"
    /\ remote[di].parent_id # Null
    /\ remote[remote[di].parent_id].kind = "category"
    /\ remote[di].id \notin Keys(channels)
    /\ Len(channels) > 0

\* C15 as stated: when an item fails, discovery skips it and goes on with
\* the remaining items of guild.channels.
C15_DiscoverySkipsFailingItem ==
    [][(AtTextChannel /\ (remote[di].name \in DisallowedNames \/ ParentUnresolved))
       => (dpc' = "loop" /\ di' = di + 1)]_vars

\* C15 as amended: when an item fails, discovery aborts the call as the
\* reconciler aborts its run: the enumeration stops at the failing item,
\* nothing is saved in that step nor later by that call, and the call
\* raises.
C15_DiscoveryAbortsOnFailingItem ==
    [][/\ (AtTextChannel /\ (remote[di].name \in DisallowedNames \/ ParentUnresolved))
          => /\ dpc' = "raised"
             /\ di' = di
             /\ UNCHANGED <<cache, discovered>>
       /\ dpc = "raised"
          => \/ UNCHANGED <<cache, dop, dpc, di, discovered>>
             \/ (dpc' = "loop" /\ di' = 1 /\ discovered' = <<>> /\ UNCHANGED cache)]_vars

\* discover_channels has raised on a channel with a rejected name while a
\* later text channel of the guild is not cached
C15_Witness ==
    /\ dop = "discover_channels"
    /\ dpc = "raised"
    /\ raised.cause = "ValidationError"
    /\ \E j \in (di + 1)..Len(remote) :
          remote[j].kind = "text" /\ remote[j].id \notin Keys(channels)

\* positions of the objects of the given kind in guild.channels
OfKind(kind) ==
    {i \in 1..Len(remote) : remote[i].kind = kind}

\* C16: a discover_categories call that returns has saved, and returns in
\* enumeration order, exactly the guild's objects of category kind, each
\* with the remote id and name and the configured server_id; a
\* discover_channels call that returns has done so for the objects of
\* text-channel kind, the parent reference being the category_id.
C16_DiscoveryMapsByKind ==
    dpc = "returned"
    => /\ dop = "discover_categories"
          => /\ Len(discovered) = Cardinality(OfKind("category"))
             /\ \A i \in OfKind("category") :
                   LET e == [id |-> remote[i].id, name |-> remote[i].name,
                             server_id |-> ServerId]
                   IN /\ discovered[Cardinality({j \in OfKind("category") : j <= i})] = e
                      /\ DictGet(categories, e.id) = <<e>>
       /\ dop = "discover_channels"
          => /\ Len(discovered) = Cardinality(OfKind("text"))
             /\ \A i \in OfKind("text") :
                   LET e == [id |-> remote[i].id, name |-> remote[i].name,
                             category_id |-> remote[i].parent_id, server_id |-> ServerId]
                   IN /\ discovered[Cardinality({j \in OfKind("text") : j <= i})] = e
                      /\ DictGet(channels, e.id) = <<e>>

\* discover_channels has returned one categorized channel of a guild that
\* also holds a category and a voice channel
C16_Witness ==
    /\ dop = "discover_channels"
    /\ dpc = "returned"
    /\ Len(discovered) = 1
    /\ discovered[1].category_id # Null
    /\ OfKind("voice") # {}
    /\ Len(remote) = 3

----------------------------------------------------------------------------
(* Bot._on_message                                                         *)

\* int(self.client.user.id): the bot's own user, whose messages are never
\* ingested (message.author.bot), so that it is no key of users
BotUserId == 3

\* User(id=int(message.author.id), username=str(message.author.username)[:32])
UserOf(ev) ==
    [id |-> ev.author_id, username |-> ev.username]

\* Message(id=int(message.id), content=..., author_id=user.id,
\* channel_id=int(message.channel.id), timestamp=message.timestamp)
MessageOf(ev) ==
    [id |-> ev.id, content |-> ev.content, author_id |-> ev.author_id,
     channel_id |-> ev.channel_id, timestamp |-> ev.timestamp]

\* Message(id=int(message.id) + 1, content=response[:2000],
\* author_id=int(self.client.user.id), channel_id=channel.id,
\* timestamp=msg.timestamp)
BotMessageOf(ev, response) ==
    [id |-> ev.id + 1, content |-> response, author_id |-> BotUserId,
     channel_id |-> ev.channel_id, timestamp |-> ev.timestamp]

\* a MessageCreate event arrives: a bot's message is dropped, another
\* author is saved
on_message_create(ev) ==
    /\ mpc = "idle"
    /\ mev' = <<ev>>
    /\ IF ev.author_bot
       THEN /\ mpc' = "idle"
            /\ UNCHANGED <<cache, call, ret>>
       ELSE /\ save_user(UserOf(ev))
            /\ mpc' = "save_message"

\* the message is saved; a StateError is logged by the handler's except
on_message_save_message ==
    /\ mpc = "save_message"
    /\ save_message(MessageOf(mev[1]))
    /\ mpc' = IF ret'.status = "raise" THEN "idle" ELSE "get_channel"
    /\ UNCHANGED mev

\* channel = await self.state.get_channel(msg.channel_id); if not channel: return
on_message_get_channel ==
    /\ mpc = "get_channel"
    /\ get_channel(mev[1].channel_id)
    /\ mpc' = IF ret'.value = None THEN "idle" ELSE "handlers"
    /\ UNCHANGED mev

\* the handler loop: no handler answers (response ""), or the first handler
\* that can handle the message answers and the answer is saved as the bot's
\* message, a failure of that save being logged
on_message_handlers(response) ==
    /\ mpc = "handlers"
    /\ IF response = ""
       THEN UNCHANGED <<cache, call, ret>>
       ELSE save_message(BotMessageOf(mev[1], response))
    /\ mpc' = "idle"
    /\ UNCHANGED mev

----------------------------------------------------------------------------
(* The system specification: one Bot whose discovery calls, reconcile runs *)
(* and message events interleave at their suspension points, over a guild  *)
(* that holds a category with a text channel, or nothing.                  *)

SystemGuilds ==
    {g \in GuildInputs :
        \/ g = <<>>
        \/ /\ Len(g) = 2
           /\ g[1].kind = "category"
           /\ g[2] = [kind |-> "text", id |-> 2, name |-> "general", parent_id |-> 1]}

SystemTemplates ==
    {t \in TemplateInputs :
        /\ t.categories = <<[name |-> "log", channels |-> <<[type |-> "text", name |-> "dev"]>>]>>
        /\ t.uncategorized_channels \in {<<>>, <<[type |-> "text", name |-> "general"]>>}
        /\ t.patterns = <<>>}

MessageEvents ==
    [id : {1}, content : {"hi"}, author_id : {1}, username : {"ann"},
     author_bot : {FALSE, TRUE}, channel_id : {2, 3}, timestamp : {1}]

Responses == {"", "ok"}

OnMessageCreate ==
    /\ \E ev \in MessageEvents : on_message_create(ev)
    /\ UNCHANGED <<recon, disc, sinks, conc>>

OnMessageSaveMessage ==
    /\ on_message_save_message
    /\ UNCHANGED <<recon, disc, sinks, conc>>

OnMessageGetChannel ==
    /\ on_message_get_channel
    /\ UNCHANGED <<recon, disc, sinks, conc>>

OnMessageHandlers ==
    /\ \E response \in Responses : on_message_handlers(response)
    /\ UNCHANGED <<recon, disc, sinks, conc>>

InitSystem ==
    /\ InitCache
    /\ InitRun
    /\ InitDiscovery
    /\ InitIngest
    /\ InitSinks
    /\ InitConc
    /\ template \in SystemTemplates
    /\ remote \in SystemGuilds

NextSystem ==
    \/ NextDiscover
    \/ NextReconcile
    \/ OnMessageCreate
    \/ OnMessageSaveMessage
    \/ OnMessageGetChannel
    \/ OnMessageHandlers

SpecSystem == InitSystem /\ [][NextSystem]_vars

----------------------------------------------------------------------------
(* Claims about the system                                                 *)

\* the calls a reconcile run makes to the registry and to the store
LocalEvents ==
    {"get_category_by_name", "save_category", "get_channel_by_name", "save_channel"}

\* C12: no step of discovery, reconciliation or message ingestion removes
\* an id from any of the four cache maps; and the only calls the reconciler
\* makes on the remote workspace are create_category and
\* create_text_channel, each of which adds one object and removes none.
C12_NoDeletion ==
    [][/\ Keys(categories) \subseteq Keys(categories')
       /\ Keys(channels) \subseteq Keys(channels')
       /\ DOMAIN users \subseteq DOMAIN users'
       /\ DOMAIN messages \subseteq DOMAIN messages'
       /\ Len(remote') >= Len(remote)
       /\ SubSeq(remote', 1, Len(remote)) = remote
       /\ \A k \in 1..Len(log') : log'[k].ev \notin LocalEvents => log'[k].ev \in CreateEvents
       /\ remote' # remote
          => /\ Len(remote') = Len(remote) + 1
             /\ log' = Append(log, log'[Len(log')])
             /\ log'[Len(log')].ev \in CreateEvents
             /\ log'[Len(log')].ok]_vars

\* after a reconcile run that created remote objects, a discovery call has
\* saved again a category that was already cached, while a user and a
\* message were cached
C12_Witness ==
    /\ pc = "done"
    /\ Len(remote) >= 3
    /\ dop = "discover_categories"
    /\ call.op = "save_category"
    /\ call.prior # None
    /\ DOMAIN users # {}
    /\ DOMAIN messages # {}

----------------------------------------------------------------------------
(* The template specification: templates with static channels and up to    *)
(* two patterns of the three pattern classes, one of them generating a     *)
(* name that is no ChannelName; resolve_patterns is applied to the         *)
(* template and then to its own results, on any of the days.               *)

ResolvePatternInputs ==
    [kind : {"prefixed"}, prefix : {"team"}, separator : {"-"},
     suffixes : {<<"a">>, <<"a", "b">>, <<"a&b">>}, topic_generator : {None}]
        \cup [kind : {"prefixed"}, prefix : {"ops"}, separator : {"_"}, suffixes : {<<"x">>},
               topic_generator : {None}]
        \cup [kind : {"daily_log"}, days_ahead : {1}, days_behind : {1},
               topic : {<<"Daily conversation log">>}]
        \cup [kind : {"weekday"}, weeks_ahead : {0}, weeks_behind : {0},
               topic : {<<"Weekly log channel">>}]

ResolvePatternListInputs ==
    {<<>>} \cup {<<p>> : p \in ResolvePatternInputs}
           \cup {<<p, q>> : p \in ResolvePatternInputs, q \in ResolvePatternInputs}

ResolveTemplateInputs ==
    [categories : {<<>>, <<[name |-> "log",
                            channels |-> <<TextChannelTemplate("dev", None, None)>>]>>},
     uncategorized_channels : {<<>>, <<TextChannelTemplate("general", None, None)>>,
                               <<[type |-> "voice", name |-> "lounge"]>>},
     patterns : ResolvePatternListInputs]

\* template.resolve_patterns() on the day today
ResolvePatterns ==
    /\ \E today \in Todays :
          /\ call' = Call("resolve_patterns", [template |-> template, today |-> today], None)
          /\ ret' = IF resolve_patterns_error(template, today) # ""
                    THEN Raise(resolve_patterns_error(template, today))
                    ELSE Return(<<resolve_patterns(template, today)>>)
    /\ UNCHANGED <<cache, rec>>

\* resolved.resolve_patterns() on the day today, resolved being the result
\* of the last resolve_patterns call
ResolveAgain ==
    /\ call.op = "resolve_patterns"
    /\ ret.status = "return"
    /\ \E today \in Todays :
          /\ call' = Call("resolve_patterns", [template |-> ret.value[1], today |-> today],
                          ret.value)
          /\ ret' = IF resolve_patterns_error(ret.value[1], today) # ""
                    THEN Raise(resolve_patterns_error(ret.value[1], today))
                    ELSE Return(<<resolve_patterns(ret.value[1], today)>>)
    /\ UNCHANGED <<cache, rec>>

InitTemplate ==
    /\ InitCache
    /\ InitReconciler
    /\ InitDiscovery
    /\ InitIngest
    /\ InitSinks
    /\ InitConc
    /\ template \in ResolveTemplateInputs

NextTemplate ==
    \/ ResolvePatterns
    \/ ResolveAgain

SpecTemplate == InitTemplate /\ [][NextTemplate]_vars

RECURSIVE GeneratedBefore(_, _, _)

\* the number of channels the patterns before position k generate
GeneratedBefore(patterns, k, today) ==
    IF k <= 1 THEN 0
    ELSE GeneratedBefore(patterns, k - 1, today) + Len(generate(patterns[k - 1], today))

C18_ResolveIdempotent ==
    (call.op = "resolve_patterns" /\ call.prior # None)
    => /\ ret.status = "return"
       /\ ret.value = call.prior

\* the result of resolving a template with a prefixed and a date pattern
\* has been resolved again, on another day
C18_Witness ==
    /\ call.op = "resolve_patterns"
    /\ call.prior # None
    /\ ret.status = "return"
    /\ Len(template.patterns) = 2
    /\ template.patterns[1].kind = "daily_log"
    /\ template.patterns[2].kind = "prefixed"
    /\ Len(ret.value[1].uncategorized_channels) >= 4
    /\ ret.value[1].uncategorized_channels[1].name # isoformat(call.arg.today - 1)

----------------------------------------------------------------------------
(* The daily-log specification: a DailyLogPattern with any days_behind and *)
(* days_ahead its fields allow is constructed, and generate() is called on *)
(* it again and again, on the same day or on another.                      *)

\* Field(default=1, ge=0, le=30): the largest days_ahead
MaxDaysAhead == 30

\* Field(default=7, ge=0, le=90): the largest days_behind
MaxDaysBehind == 90

DailyLogPatternInputs ==
    [kind : {"daily_log"}, days_ahead : 0..MaxDaysAhead, days_behind : 0..MaxDaysBehind,
     topic : {<<"Daily conversation log">>}]

\* two days whose windows reach back over the turn of a year; the window of
\* the first reaches forward over a leap day, that of the second over the
\* end of a February of 28 days
DailyTodays ==
    {ymd2ord(2024, 2, 27), ymd2ord(2026, 2, 10)}

\* pattern.generate() on the day today; prior is the day and the result of
\* the call before, None for the first call on the pattern
generate_call(op, pattern, today, prior) ==
    /\ call' = Call(op, [pattern |-> pattern, today |-> today], prior)
    /\ ret' = IF generate_error(pattern, today) # ""
              THEN Raise(generate_error(pattern, today))
              ELSE Return(generate(pattern, today))
    /\ UNCHANGED <<cache, rec>>

\* DailyLogPattern(days_ahead=..., days_behind=...).generate()
DailyLogGenerate ==
    /\ call.op = "init"
    /\ \E pattern \in DailyLogPatternInputs, today \in DailyTodays :
          generate_call("DailyLogPattern.generate", pattern, today, None)

\* generate() is called again on the same pattern
DailyLogGenerateAgain ==
    /\ call.op = "DailyLogPattern.generate"
    /\ \E today \in DailyTodays :
          generate_call("DailyLogPattern.generate", call.arg.pattern, today,
                        <<[today |-> call.arg.today, value |-> ret.value]>>)

NextDailyLog ==
    \/ DailyLogGenerate
    \/ DailyLogGenerateAgain

SpecDailyLog == Init /\ [][NextDailyLog]_vars

\* C19: DailyLogPattern.generate() returns days_behind + days_ahead + 1
\* text-channel templates, the k-th named by the ISO date of the day
\* today - days_behind + (k - 1), so one per day of the window, today among
\* them, and no name twice; a call on the same day as the call before
\* returns the same list.
C19_DailyLogWindow ==
    call.op = "DailyLogPattern.generate"
    => LET pattern == call.arg.pattern
           today == call.arg.today
           r == ret.value
       IN /\ ret.status = "return"
          /\ Len(r) = pattern.days_behind + pattern.days_ahead + 1
          /\ \A k \in 1..Len(r) :
                /\ r[k].type = "text"
                /\ r[k].name = isoformat(today - pattern.days_behind + (k - 1))
          /\ r[pattern.days_behind + 1].name = isoformat(today)
          /\ Cardinality(Range(r)) = Len(r)
          /\ (call.prior # None /\ call.prior[1].today = today) => r = call.prior[1].value

\* the widest window was generated twice on 2024-02-27: 121 channels from
\* 2023-11-29 over the leap day to 2024-03-28
C19_Witness ==
    /\ call.op = "DailyLogPattern.generate"
    /\ call.arg.today = ymd2ord(2024, 2, 27)
    /\ call.prior # None
    /\ call.prior[1].today = call.arg.today
    /\ Len(ret.value) = 121
    /\ ret.value[1].name = "2023-11-29"
    /\ ret.value[91].name = "2024-02-27"
    /\ ret.value[93].name = "2024-02-29"
    /\ ret.value[94].name = "2024-03-01"
    /\ ret.value[121].name = "2024-03-28"

\* ---------------------------------------------------------------------
\* WeekDayPattern.generate over its whole parameter range
\* ---------------------------------------------------------------------

\* Field(default=0, ge=0, le=4): the largest weeks_ahead
MaxWeeksAhead == 4

\* Field(default=1, ge=0, le=8): the largest weeks_behind
MaxWeeksBehind == 8

WeekDayPatternInputs ==
    [kind : {"weekday"}, weeks_ahead : 0..MaxWeeksAhead, weeks_behind : 0..MaxWeeksBehind,
     topic : {<<"Weekly log channel">>}]

\* the seven days of the week of 2020-12-28, which is ISO week 53 of 2020
\* and runs over the turn of the year, and the seven days of the week of
\* 2026-11-02
WeekTodays ==
    {ymd2ord(2020, 12, 28) + d : d \in 0..6} \cup {ymd2ord(2026, 11, 2) + d : d \in 0..6}

\* WeekDayPattern(weeks_ahead=..., weeks_behind=...).generate()
WeekDayGenerate ==
    /\ call.op = "init"
    /\ \E pattern \in WeekDayPatternInputs, today \in WeekTodays :
          generate_call("WeekDayPattern.generate", pattern, today, None)

NextWeekDay ==
    WeekDayGenerate

SpecWeekDay == Init /\ [][NextWeekDay]_vars

\* the ISO week of a day is the number of the week of its year that holds
\* the Thursday of the day's Monday-to-Sunday week
IsoWeekOf(day) ==
    LET thursday == day - weekday(day) + 3
        newyear == ymd2ord(ord2ymd(thursday).year, 1, 1)
    IN ((thursday - newyear) \div 7) + 1

\* C20: WeekDayPattern.generate() covers 7 * (weeks_behind + weeks_ahead + 1)
\* days in a row, from the day 7 * weeks_behind + weekday(today) days before
\* today, a Monday, to the day 7 * weeks_ahead + (6 - weekday(today)) days
\* after today, a Sunday; the k-th name is the ISO week and the ISO weekday
\* of the k-th day, each in two digits.
C20_WeekDayWindow ==
    call.op = "WeekDayPattern.generate"
    => LET pattern == call.arg.pattern
           today == call.arg.today
           r == ret.value
           first == today - (7 * pattern.weeks_behind + weekday(today))
           last == today + (7 * pattern.weeks_ahead + (6 - weekday(today)))
       IN /\ ret.status = "return"
          /\ Len(r) = 7 * (pattern.weeks_behind + pattern.weeks_ahead + 1)
          /\ last - first + 1 = Len(r)
          /\ weekday(first) = 0
          /\ weekday(last) = 6
          /\ \A k \in 1..Len(r) :
                /\ r[k].type = "text"
                /\ r[k].name = Pad2(IsoWeekOf(first + (k - 1))) \o "-"
                                  \o Pad2(((k - 1) % 7) + 1)

\* on Thursday 2020-12-31 the widest window was generated: thirteen weeks
\* from Monday 2020-11-02, over week 53 of 2020, to Sunday 2021-01-31
C20_Witness ==
    /\ call.op = "WeekDayPattern.generate"
    /\ call.arg.today = ymd2ord(2020, 12, 31)
    /\ call.arg.pattern.weeks_behind = MaxWeeksBehind
    /\ call.arg.pattern.weeks_ahead = MaxWeeksAhead
    /\ Len(ret.value) = 91
    /\ ret.value[1].name = "45-01"
    /\ ret.value[57].name = "53-01"
    /\ ret.value[60].name = "53-04"
    /\ ret.value[63].name = "53-07"
    /\ ret.value[64].name = "01-01"
    /\ ret.value[91].name = "04-07"

\* ---------------------------------------------------------------------
\* PrefixedPattern.generate
\* ---------------------------------------------------------------------

MaxSuffixes == 3

PrefixedSuffixes == {"alpha", "beta", "a&b"}

\* the lists of at most MaxSuffixes suffixes, a suffix twice included
PrefixedSuffixLists ==
    UNION {[1..n -> PrefixedSuffixes] : n \in 0..MaxSuffixes}

PrefixedPatternInputs ==
    [kind : {"prefixed"}, prefix : {"team", "ops"}, separator : {"-", "_"},
     suffixes : PrefixedSuffixLists,
     topic_generator : {None} \cup {<<g>> : g \in TopicGenerators}]

\* PrefixedPattern(prefix=..., suffixes=..., ...).generate()
PrefixedGenerate ==
    /\ call.op = "init"
    /\ \E pattern \in PrefixedPatternInputs, today \in Todays :
          generate_call("PrefixedPattern.generate", pattern, today, None)

NextPrefixed ==
    PrefixedGenerate

SpecPrefixed == Init /\ [][NextPrefixed]_vars

\* C21: PrefixedPattern.generate() returns one text-channel template per
\* entry of suffixes, in list order: the k-th (from 0) is named
\* prefix + separator + suffix, has position k, and has the topic
\* topic_generator(suffix) when a generator is given and no topic
\* otherwise; an empty suffixes list gives an empty list.  The call returns
\* when every such name is a channel name, and raises when one is not.
C21_PrefixedGenerate ==
    call.op = "PrefixedPattern.generate"
    => LET pattern == call.arg.pattern
           suffixes == pattern.suffixes
           r == ret.value
       IN IF \E k \in 1..Len(suffixes) : "a&b" = suffixes[k]
          THEN ret.status = "raise"
          ELSE /\ ret.status = "return"
               /\ Len(r) = Len(suffixes)
               /\ suffixes = <<>> => r = <<>>
               /\ \A k \in 1..Len(suffixes) :
                     /\ r[k].type = "text"
                     /\ r[k].name = pattern.prefix \o pattern.separator \o suffixes[k]
                     /\ r[k].position = <<k - 1>>
                     /\ r[k].topic = IF pattern.topic_generator = None
                                     THEN None
                                     ELSE <<topic_generator(pattern.topic_generator[1],
                                                            suffixes[k])>>

\* PrefixedPattern(prefix="team", suffixes=["alpha", "beta", "alpha"],
\* topic_generator=topic_gen) has generated its three templates
C21_Witness ==
    /\ call.op = "PrefixedPattern.generate"
    /\ ret.status = "return"
    /\ Len(ret.value) = 3
    /\ ret.value[1] = [type |-> "text", name |-> "team-alpha",
                       topic |-> <<"Topic for alpha">>, position |-> <<0>>]
    /\ ret.value[2] = [type |-> "text", name |-> "team-beta",
                       topic |-> <<"Topic for beta">>, position |-> <<1>>]
    /\ ret.value[3] = [type |-> "text", name |-> "team-alpha",
                       topic |-> <<"Topic for alpha">>, position |-> <<2>>]

----------------------------------------------------------------------------
(* TemplateModel: construction and attribute assignment                    *)
(*                                                                         *)
(* A template object is the record of all the fields of its class.  The    *)
(* keyword arguments of a constructor call are a record of the names       *)
(* given.                                                                  *)

\* mutant of frozen: ConfigDict(frozen=False)
frozen_off ==
    FALSE

\* model_config = ConfigDict(frozen=True, ...)
frozen ==
    TRUE

\* model_config = ConfigDict(..., extra="forbid", ...)
extra ==
    "forbid"

TemplateClasses ==
    {"ServerTemplate", "CategoryTemplate", "TextChannelTemplate"}

\* the fields the class declares
ModelFields(cls) ==
    CASE cls = "ServerTemplate" -> {"categories", "uncategorized_channels", "patterns"}
      [] cls = "CategoryTemplate" -> {"name", "position", "channels"}
      [] cls = "TextChannelTemplate" ->
            {"name", "topic", "position", "type", "slowmode_seconds", "nsfw"}

\* the defaults of the fields that have one; name has none
ModelDefaults(cls) ==
    CASE cls = "ServerTemplate" ->
            [categories |-> <<>>, uncategorized_channels |-> <<>>, patterns |-> <<>>]
      [] cls = "CategoryTemplate" -> [position |-> None, channels |-> <<>>]
      [] cls = "TextChannelTemplate" ->
            [topic |-> None, position |-> None, type |-> "text",
             slowmode_seconds |-> <<0>>, nsfw |-> FALSE]

\* the ValidationError of cls(**kwargs), "" when the object is constructed:
\* a name that is no field (extra="forbid"), a field without default that
\* is not given, or a channel name that is no ChannelName
BaseModel_init_error(cls, kwargs) ==
    IF extra = "forbid" /\ (DOMAIN kwargs \ ModelFields(cls)) # {}
    THEN "ValidationError"
    ELSE IF (ModelFields(cls) \ DOMAIN ModelDefaults(cls)) \ DOMAIN kwargs # {}
    THEN "ValidationError"
    ELSE IF cls = "TextChannelTemplate" /\ validate_channel_name(kwargs.name) # ""
    THEN "ValidationError"
    ELSE ""

\* the object cls(**kwargs) constructs
BaseModel_init(cls, kwargs) ==
    [f \in ModelFields(cls) |->
        IF f \in DOMAIN kwargs THEN kwargs[f] ELSE ModelDefaults(cls)[f]]

\* the ValidationError of obj.name = value: the instance is frozen
BaseModel_setattr_error(obj, name, value) ==
    IF frozen THEN "ValidationError" ELSE ""

\* obj after obj.name = value
BaseModel_setattr(obj, name, value) ==
    IF BaseModel_setattr_error(obj, name, value) # ""
    THEN obj
    ELSE [obj EXCEPT ![name] = value]

KwargsInputs(cls) ==
    CASE cls = "ServerTemplate" ->
            {<<>>} \cup [categories : {<<>>}, patterns : {<<>>}]
                   \cup [categories : {<<>>}, extra_field : {"not allowed"}]
      [] cls = "CategoryTemplate" ->
            [name : {"log", "ops"}]
               \cup [name : {"log"}, channels : {<<>>}, position : {<<1>>}]
               \cup [name : {"log"}, extra_field : {"not allowed"}]
               \cup [channels : {<<>>}]
      [] cls = "TextChannelTemplate" ->
            [name : {"general", "dev", "q&a"}]
               \cup [name : {"general"}, topic : {<<"Test topic">>}, position : {<<0>>}]
               \cup [name : {"general"}, extra_field : {"not allowed"}]
               \cup [topic : {None}]

AssignedValues ==
    {"modified", <<>>}

\* template = cls(**kwargs)
TemplateConstruct ==
    /\ \E cls \in TemplateClasses :
          \E kwargs \in KwargsInputs(cls) :
             /\ call' = Call("TemplateModel.__init__", [cls |-> cls, kwargs |-> kwargs],
                             <<template>>)
             /\ IF BaseModel_init_error(cls, kwargs) # ""
                THEN /\ ret' = Raise(BaseModel_init_error(cls, kwargs))
                     /\ UNCHANGED template
                ELSE /\ ret' = Return(None)
                     /\ template' = BaseModel_init(cls, kwargs)
    /\ UNCHANGED <<categories, channels, users, messages, remote, pc, resolved, ci, chi,
                   cur_category_id, discord_obj, raised, log, run, outcomes>>
    /\ UNCHANGED disc
    /\ UNCHANGED ing
    /\ UNCHANGED sinks
    /\ UNCHANGED conc

\* template.name = value, for a field name of the template
TemplateSetAttr ==
    /\ \E name \in DOMAIN template, value \in AssignedValues :
          /\ call' = Call("TemplateModel.__setattr__", [name |-> name, value |-> value],
                          <<template>>)
          /\ ret' = IF BaseModel_setattr_error(template, name, value) # ""
                    THEN Raise(BaseModel_setattr_error(template, name, value))
                    ELSE Return(None)
          /\ template' = BaseModel_setattr(template, name, value)
    /\ UNCHANGED <<categories, channels, users, messages, remote, pc, resolved, ci, chi,
                   cur_category_id, discord_obj, raised, log, run, outcomes>>
    /\ UNCHANGED disc
    /\ UNCHANGED ing
    /\ UNCHANGED sinks
    /\ UNCHANGED conc

NextFrozen ==
    \/ TemplateConstruct
    \/ TemplateSetAttr

SpecFrozen == Init /\ [][NextFrozen]_vars

\* C26: an assignment to a field of a constructed template raises a
\* validation error and leaves the template as it was; a constructor call
\* with a keyword that is no field of the class raises a validation error
\* and constructs nothing.
C26_TemplateFrozenStrict ==
    /\ call.op = "TemplateModel.__setattr__"
       => /\ ret.status = "raise"
          /\ ret.error = "ValidationError"
          /\ template = call.prior[1]
    /\ (call.op = "TemplateModel.__init__" /\ "extra_field" \in DOMAIN call.arg.kwargs)
       => /\ ret.status = "raise"
          /\ ret.error = "ValidationError"
          /\ template = call.prior[1]

\* TextChannelTemplate(name="general", topic="Test topic", position=0) was
\* constructed and an assignment to its name was refused
C26_Witness ==
    /\ call.op = "TemplateModel.__setattr__"
    /\ call.arg.name = "name"
    /\ call.arg.value = "modified"
    /\ ret.status = "raise"
    /\ template.name = "general"
    /\ template.topic = <<"Test topic">>
    /\ template.type = "text"

----------------------------------------------------------------------------
(* Entities held by a caller                                               *)
(*                                                                         *)
(* save_* stores the object it is given (self.categories[category.id] =   *)
(* category) and get_* and the registry lookups return the stored object   *)
(* (self.categories.get(category_id), return category): the caller and     *)
(* the dict hold one and the same Python object.  StateModel is not        *)
(* frozen (validate_assignment=True), so the caller can assign to it.      *)

CategoryOps == {"save_category", "get_category", "get_category_by_name"}

ChannelOps == {"save_channel", "get_channel", "get_channel_by_name"}

\* the cached entity object the caller holds after the last call: the
\* argument of a save that returned, or the entity a lookup returned
Held ==
    IF ret.status # "return" THEN None
    ELSE IF call.op \in {"save_category", "save_channel"} THEN <<call.arg>>
    ELSE IF call.op \in (CategoryOps \cup ChannelOps) THEN ret.value
    ELSE None

\* entity.name = name on the held object, name a valid name
entity_set_name(name) ==
    /\ Held # None
    /\ LET entity == Held[1]
           assigned == [entity EXCEPT !.name = name]
       IN /\ IF call.op \in CategoryOps
             THEN /\ categories' = DictSet(categories, assigned)
                  /\ UNCHANGED channels
             ELSE /\ channels' = DictSet(channels, assigned)
                  /\ UNCHANGED categories
          /\ call' = Call("entity.name =",
                          [kind |-> IF call.op \in CategoryOps THEN "category" ELSE "channel",
                           id |-> entity.id, name |-> name],
                          <<entity>>)
          /\ ret' = Return(None)
    /\ UNCHANGED <<users, messages>>

EntitySetName ==
    /\ \E name \in {"renamed"} : entity_set_name(name)
    /\ UNCHANGED rec

AliasSaveCategory ==
    /\ \E category \in [id : {1}, name : {"log"}, server_id : {ServerId}] :
          save_category(category)
    /\ UNCHANGED rec

AliasSaveChannel ==
    /\ \E channel \in [id : ChannelIds, name : {"general"}, category_id : {Null, 1},
                        server_id : {ServerId}] :
          save_channel(channel)
    /\ UNCHANGED rec

AliasGetCategoryByName ==
    /\ \E name \in {"log", "renamed"} : get_category_by_name(name, ServerId)
    /\ UNCHANGED rec

AliasGetChannelByName ==
    /\ \E name \in {"general", "renamed"} : get_channel_by_name(name, ServerId)
    /\ UNCHANGED rec

NextAlias ==
    \/ AliasSaveCategory
    \/ AliasSaveChannel
    \/ GetCategory
    \/ GetChannel
    \/ AliasGetCategoryByName
    \/ AliasGetChannelByName
    \/ EntitySetName

SpecAlias == Init /\ [][NextAlias]_vars

\* C25: after a caller has assigned to an entity object it passed to
\* save_* or got from get_* or a registry lookup, a get_* for that id
\* still returns the entity as it was cached before the assignment.
C25_CacheHoldsValues ==
    call.op = "entity.name ="
    => DictGet(IF call.arg.kind = "category" THEN categories ELSE channels, call.arg.id)
          = call.prior

\* ---------------------------------------------------------------------
\* The managers' dual write: DatabaseWriter, then JSONLWriter
\* ---------------------------------------------------------------------

\* the most lines the JSONL file grows to
MaxLines == 2

\* DatabaseWriter.save_*: the DatabaseError it raises ("" when it saves).
\* fails is an exception inside the method (initialisation, storage), which
\* the method wraps into DatabaseError; save_channel and save_message also
\* raise it for a missing reference.
DatabaseWriter_save_error(entity_type, entity, fails) ==
    IF fails THEN "DatabaseError"
    ELSE IF entity_type = "channel"
              /\ entity.category_id # Null
              /\ entity.category_id \notin DOMAIN db.categories
         THEN "DatabaseError"
    ELSE IF entity_type = "message"
              /\ (entity.author_id \notin DOMAIN db.users
                  \/ entity.channel_id \notin DOMAIN db.channels)
         THEN "DatabaseError"
    ELSE ""

\* the map of DatabaseWriter._state that holds the entities of a type
StateMapOf(entity_type) ==
    CASE entity_type = "category" -> "categories"
      [] entity_type = "channel" -> "channels"
      [] entity_type = "user" -> "users"
      [] entity_type = "message" -> "messages"

\* DatabaseWriter.save_*: the store after a save that does not raise
DatabaseWriter_save(entity_type, entity) ==
    [db EXCEPT ![StateMapOf(entity_type)] = MapSet(@, entity)]

\* JSONLWriter.write: the file after a write that does not raise
JSONLWriter_write(entity, entity_type) ==
    Append(jsonl, [type |-> entity_type, data |-> entity])

\* mutant of dual_write: a DatabaseError leaves the manager's save, so the
\* JSONL write is not reached
dual_write_propagate(op, entity_type, entity, value, db_fails, jsonl_fails) ==
    LET db_error == DatabaseWriter_save_error(entity_type, entity, db_fails) IN
    /\ db' = IF db_error # "" THEN db ELSE DatabaseWriter_save(entity_type, entity)
    /\ jsonl' = IF db_error # "" \/ jsonl_fails THEN jsonl
                ELSE JSONLWriter_write(entity, entity_type)
    /\ logged' = IF db_error = "" /\ jsonl_fails THEN <<"JSONLError">> ELSE <<>>
    /\ call' = Call(op, [entity |-> entity, type |-> entity_type],
                    <<[db |-> db, jsonl |-> jsonl]>>)
    /\ ret' = IF db_error # "" THEN Raise(db_error) ELSE Return(value)

\* the two try blocks every manager save ends with: db.save_* with
\* DatabaseError caught and logged, then jsonl.write_* with JSONLError caught
\* and logged; the save then returns value
dual_write(op, entity_type, entity, value, db_fails, jsonl_fails) ==
    LET db_error == DatabaseWriter_save_error(entity_type, entity, db_fails) IN
    /\ db' = IF db_error # "" THEN db ELSE DatabaseWriter_save(entity_type, entity)
    /\ jsonl' = IF jsonl_fails THEN jsonl ELSE JSONLWriter_write(entity, entity_type)
    /\ logged' = (IF db_error # "" THEN <<db_error>> ELSE <<>>)
                 \o (IF jsonl_fails THEN <<"JSONLError">> ELSE <<>>)
    /\ call' = Call(op, [entity |-> entity, type |-> entity_type],
                    <<[db |-> db, jsonl |-> jsonl]>>)
    /\ ret' = Return(value)

\* the id the MessageHandler gives an entity: int(id or 0), and 1 when that
\* is not positive
HandlerId(id) ==
    IF id <= 0 THEN 1 ELSE id

CategoryManager_save_category(category, db_fails, jsonl_fails) ==
    dual_write("CategoryManager.save_category", "category", category, None,
               db_fails, jsonl_fails)

ChannelManager_save_channel(channel, db_fails, jsonl_fails) ==
    dual_write("ChannelManager.save_channel", "channel", channel, None,
               db_fails, jsonl_fails)

MessageHandler_save_user(discord_user, db_fails, jsonl_fails) ==
    LET user == [id |-> HandlerId(discord_user.id),
                 username |-> discord_user.username] IN
    dual_write("MessageHandler.save_user", "user", user, <<user>>,
               db_fails, jsonl_fails)

MessageHandler_save_message(discord_message, db_fails, jsonl_fails) ==
    LET message == [id |-> HandlerId(discord_message.id),
                    content |-> discord_message.content,
                    author_id |-> HandlerId(discord_message.author_id),
                    channel_id |-> HandlerId(discord_message.channel_id)] IN
    dual_write("MessageHandler.save_message", "message", message, <<message>>,
               db_fails, jsonl_fails)

DualWriteOps ==
    {"CategoryManager.save_category", "ChannelManager.save_channel",
     "MessageHandler.save_user", "MessageHandler.save_message"}

\* the entities and Discord objects the managers are handed
SinkCategories == [id : {1}, name : {"log", "ops"}]

SinkChannels == [id : {1}, name : {"general"}, category_id : {Null, 1, 2}]

SinkUsers == [id : {0, 1}, username : {"ann"}]

SinkMessages == [id : {0, 2}, content : {"hi"}, author_id : {1, 2}, channel_id : {1}]

SaveCategoryDual ==
    /\ Len(jsonl) < MaxLines
    /\ \E category \in SinkCategories, db_fails \in BOOLEAN, jsonl_fails \in BOOLEAN :
          CategoryManager_save_category(category, db_fails, jsonl_fails)
    /\ UNCHANGED <<cache, recon, disc, ing, conc>>

SaveChannelDual ==
    /\ Len(jsonl) < MaxLines
    /\ \E channel \in SinkChannels, db_fails \in BOOLEAN, jsonl_fails \in BOOLEAN :
          ChannelManager_save_channel(channel, db_fails, jsonl_fails)
    /\ UNCHANGED <<cache, recon, disc, ing, conc>>

SaveUserDual ==
    /\ Len(jsonl) < MaxLines
    /\ \E discord_user \in SinkUsers, db_fails \in BOOLEAN, jsonl_fails \in BOOLEAN :
          MessageHandler_save_user(discord_user, db_fails, jsonl_fails)
    /\ UNCHANGED <<cache, recon, disc, ing, conc>>

SaveMessageDual ==
    /\ Len(jsonl) < MaxLines
    /\ \E discord_message \in SinkMessages, db_fails \in BOOLEAN, jsonl_fails \in BOOLEAN :
          MessageHandler_save_message(discord_message, db_fails, jsonl_fails)
    /\ UNCHANGED <<cache, recon, disc, ing, conc>>

NextDualWrite ==
    \/ SaveCategoryDual
    \/ SaveChannelDual
    \/ SaveUserDual
    \/ SaveMessageDual

SpecDualWrite == Init /\ [][NextDualWrite]_vars

\* the line a manager save appends for the entity of the last call
LineOfCall ==
    [type |-> call.arg.type, data |-> call.arg.entity]

\* C24: a manager save (save_category, save_channel, save_user,
\* save_message) always returns normally.  When the structured store fails
\* the store is left as it was and the append-log write is still attempted
\* (it appends the line, or its own failure is logged); when the append-log
\* write fails the file is left as it was and the store holds the entity
\* unless the store failed too.
C24_DualWriteIndependent ==
    call.op \in DualWriteOps =>
        LET before == call.prior[1]
            entity == call.arg.entity
            db_failed == "DatabaseError" \in Range(logged)
            jsonl_failed == "JSONLError" \in Range(logged)
        IN  /\ ret.status = "return"
            /\ IF db_failed
               THEN db = before.db
               ELSE /\ entity.id \in DOMAIN db[StateMapOf(call.arg.type)]
                    /\ db[StateMapOf(call.arg.type)][entity.id] = entity
            /\ IF jsonl_failed
               THEN jsonl = before.jsonl
               ELSE jsonl = Append(before.jsonl, LineOfCall)

\* a channel save whose store write failed and whose line was appended, and
\* before it a save whose line failed and whose store write succeeded
C24_Witness ==
    /\ call.op = "ChannelManager.save_channel"
    /\ logged = <<"DatabaseError">>
    /\ 1 \notin DOMAIN db.channels
    /\ Len(jsonl) = 1
    /\ jsonl[1] = LineOfCall
    /\ 1 \in DOMAIN db.categories

----------------------------------------------------------------------------
(* The Bot's tasks: the on_ready and on_message_create handlers, which the *)
(* client runs as one task per event, and the _reconcile_loop tasks.  A    *)
(* task moves from one await to the next; `async with self._lock` is an    *)
(* acquisition, which waits while another task holds the lock, followed by *)
(* the body, whose end releases the lock.                                  *)

\* most Ready events dispatched
MaxReady == 2

\* most wake-ups of the _reconcile_loop tasks
MaxPasses == 2

\* most MessageCreate events dispatched
MaxMessages == 1

\* Bot(settings, template=None)
NoTemplate == [none |-> TRUE]

\* the template of the Bot: one category with one text channel
BotTemplate ==
    [categories |-> <<[name |-> "log",
                       channels |-> <<[type |-> "text", name |-> "general"]>>]>>,
     uncategorized_channels |-> <<>>,
     patterns |-> <<>>]

\* date.today() of the runs
BotToday == ymd2ord(2026, 2, 10)

\* a task at its first await: its coroutine (kind), where it stands (pc), the
\* task that created it (Null for the client's dispatch), the locals of
\* reconcile (ci, chi, category_id, obj), of on_message (ev, response), whether
\* it is inside `async with self._lock` (locked), whether cancel() was called
\* on it and CancelledError is still to be thrown into it (cancel), the
\* wake-ups of its loop (passes), the exception its handler logged, and, once
\* its discovery has run, how many objects guild.channels held then (seen)
Task(kind, p, parent) ==
    [kind |-> kind, pc |-> p, parent |-> parent, ci |-> 0, chi |-> 0,
     category_id |-> Null, obj |-> None, ev |-> None, response |-> "",
     locked |-> FALSE, cancel |-> FALSE, passes |-> 0, error |-> "",
     seen |-> None]

TaskIds == 1..Len(tasks)

TasksOf(kind) == {t \in TaskIds : tasks[t].kind = kind}

\* where a task awaits the remote system or the LLM service
RemotePcs == {"fetch_guild", "create_category", "create_text_channel", "reply"}

\* where a task is suspended and a pending cancellation is thrown into it
SuspendPcs == RemotePcs \cup {"sleep", "generate_async"}

\* where a task is about to enter or is inside `async with self._lock`
CachePcs ==
    {"category", "save_category", "channel", "save_channel", "save_channel_write",
     "save_user", "save_message", "save_message_write", "get_channel", "get_messages"}

\* the task t goes on as tk; Bot._reconcile_task stays
Proceed(t, tk) ==
    /\ tasks' = [tasks EXCEPT ![t] = tk]
    /\ UNCHANGED reconcile_task

\* mutant of periodic_enabled: an interval of 0 starts the loop as well
periodic_enabled_always ==
    settings.reconcile_interval >= 0

\* if self.settings.reconcile_interval > 0
periodic_enabled ==
    settings.reconcile_interval > 0

\* the end of _on_ready's try block: the loop task is created when the
\* interval is positive, and replaces the task Bot._reconcile_task named
on_ready_create_task(t, tk) ==
    IF periodic_enabled
    THEN /\ tasks' = Append([tasks EXCEPT ![t] = [tk EXCEPT !.pc = "done"]],
                            Task("reconcile_loop", "sleep", t))
         /\ reconcile_task' = Len(tasks) + 1
    ELSE Proceed(t, [tk EXCEPT !.pc = "done"])

\* the task record when reconcile is left: its locals are gone
Left(tk) ==
    [tk EXCEPT !.ci = 0, !.chi = 0, !.category_id = Null, !.obj = None]

\* reconciler.reconcile returns in task t: the loop sleeps again, the ready
\* handler goes on to the end of its try block
reconcile_returns(t, tk) ==
    IF tk.kind = "reconcile_loop"
    THEN Proceed(t, [Left(tk) EXCEPT !.pc = "sleep"])
    ELSE on_ready_create_task(t, Left(tk))

\* mutant of reconcile_raises: the ready handler goes on to the end of its
\* try block after the failure
reconcile_raises_create(t, tk) ==
    IF tk.kind = "reconcile_loop"
    THEN Proceed(t, [Left(tk) EXCEPT !.pc = "sleep", !.error = "ReconciliationError"])
    ELSE on_ready_create_task(t, [Left(tk) EXCEPT !.error = "ReconciliationError"])

\* reconciler.reconcile raises ReconciliationError in task t: the loop logs
\* it and sleeps again, the ready handler logs it and ends
reconcile_raises(t, tk) ==
    Proceed(t, [Left(tk) EXCEPT
                   !.pc = IF tk.kind = "reconcile_loop" THEN "sleep" ELSE "done",
                   !.error = "ReconciliationError"])

\* reconcile's loops move to position p
MoveTo(t, tk, p) ==
    IF p.pc = "done"
    THEN reconcile_returns(t, tk)
    ELSE Proceed(t, [tk EXCEPT !.pc = p.pc, !.ci = p.ci, !.chi = p.chi])

\* template.resolve_patterns() of a run
Resolved == resolve_patterns(template, BotToday)

\* the record of a call of Reconciler.reconcile: the task, its coroutine,
\* and whether Bot.stop() had been called and the cancellation it requested
\* had been thrown into its task
Started(t) ==
    [task |-> t, kind |-> tasks[t].kind,
     after_stop |-> /\ stopped
                    /\ \E u \in TaskIds : tasks[u].pc = "cancelled"
                    /\ \A u \in TaskIds : ~tasks[u].cancel]

\* await self.reconciler.reconcile(guild, self.template) in task t
reconcile(t, tk) ==
    /\ started' = Append(started, Started(t))
    /\ IF resolve_patterns_error(template, BotToday) # ""
       THEN reconcile_raises(t, tk)
       ELSE MoveTo(t, tk, NextCategory(Resolved, 1))

\* what a step of a task never changes
TaskFrame ==
    <<call, ret, template, pc, resolved, ci, chi, cur_category_id, discord_obj, raised,
      log, run, outcomes, dop, dpc, di, discovered, mpc, mev, db, jsonl, logged,
      settings>>

\* the client dispatches a Ready event: on_ready runs as a new task up to
\* its first await, the fetch of the guild
on_ready ==
    /\ ~stopped
    /\ Cardinality(TasksOf("on_ready")) < MaxReady
    /\ tasks' = Append(tasks, Task("on_ready", "fetch_guild", Null))
    /\ UNCHANGED <<cache, remote, lock, reconcile_task, stopped, started>>
    /\ UNCHANGED TaskFrame

\* the tasks that a step can resume: a task with a pending cancellation is
\* resumed by CancelledError alone
Resumable(t, p) ==
    /\ tasks[t].pc = p
    /\ ~tasks[t].cancel

\* client.fetch_guild returns: the ready handler goes on to discovery, the
\* loop calls reconcile
fetch_guild_returns(t) ==
    /\ Resumable(t, "fetch_guild")
    /\ IF tasks[t].kind = "reconcile_loop"
       THEN reconcile(t, tasks[t])
       ELSE /\ Proceed(t, [tasks[t] EXCEPT !.pc = "discover"])
            /\ UNCHANGED started
    /\ UNCHANGED <<cache, remote, lock, stopped>>
    /\ UNCHANGED TaskFrame

\* mutant of fetch_guild_raises: the exception ends the coroutine, the loop
\* as well
fetch_guild_raises_ends(t) ==
    /\ Resumable(t, "fetch_guild")
    /\ Proceed(t, [tasks[t] EXCEPT !.pc = "done", !.error = "RemoteError"])
    /\ UNCHANGED <<cache, remote, lock, stopped, started>>
    /\ UNCHANGED TaskFrame

\* client.fetch_guild raises: both coroutines log the exception; the ready
\* handler ends, the loop sleeps again
fetch_guild_raises(t) ==
    /\ Resumable(t, "fetch_guild")
    /\ Proceed(t, [tasks[t] EXCEPT
                      !.pc = IF tasks[t].kind = "reconcile_loop" THEN "sleep" ELSE "done",
                      !.error = "RemoteError"])
    /\ UNCHANGED <<cache, remote, lock, stopped, started>>
    /\ UNCHANGED TaskFrame

RECURSIVE SaveAll(_, _)

\* save_category for each GuildCategory of guild.channels, in order
SaveAll(d, objs) ==
    IF objs = <<>> THEN d
    ELSE SaveAll(IF IsGuildCategory(Head(objs)) THEN DictSet(d, CategoryOf(Head(objs))) ELSE d,
                 Tail(objs))

RECURSIVE SaveAllChannels(_, _, _)

\* save_channel for each GuildText of guild.channels, in order, up to the
\* first one whose category is not cached: [channels, error]
SaveAllChannels(d, cats, objs) ==
    IF objs = <<>> THEN [channels |-> d, error |-> ""]
    ELSE IF ~IsGuildText(Head(objs)) THEN SaveAllChannels(d, cats, Tail(objs))
    ELSE IF ChannelOf(Head(objs)).category_id # Null
            /\ ChannelOf(Head(objs)).category_id \notin Keys(cats)
         THEN [channels |-> d, error |-> "DiscordAPIError"]
    ELSE SaveAllChannels(DictSet(d, ChannelOf(Head(objs))), cats, Tail(objs))

\* mutant of discover: the startup reconcile begins without the discovery
\* having saved anything
discover_nothing(t) ==
    /\ tasks[t].pc = "discover"
    /\ lock = Null
    /\ LET tk == [tasks[t] EXCEPT !.seen = <<Len(remote)>>]
       IN /\ UNCHANGED <<categories, channels>>
          /\ IF template # NoTemplate /\ settings.auto_reconcile
             THEN reconcile(t, tk)
             ELSE /\ on_ready_create_task(t, tk)
                  /\ UNCHANGED started
    /\ UNCHANGED <<users, messages, remote, lock, stopped>>
    /\ UNCHANGED TaskFrame

\* discover_categories(guild) and discover_channels(guild) of the ready
\* handler, whose saves take the free lock one after another, and then
\* the startup reconcile or, without one, the end of the try block
discover(t) ==
    /\ tasks[t].pc = "discover"
    /\ lock = Null
    /\ LET cats == SaveAll(categories, remote)
           chans == SaveAllChannels(channels, cats, remote)
           tk == [tasks[t] EXCEPT !.seen = <<Len(remote)>>]
       IN /\ categories' = cats
          /\ channels' = chans.channels
          /\ IF chans.error # ""
             THEN /\ Proceed(t, [tk EXCEPT !.pc = "done", !.error = chans.error])
                  /\ UNCHANGED started
             ELSE IF template # NoTemplate /\ settings.auto_reconcile
             THEN reconcile(t, tk)
             ELSE /\ on_ready_create_task(t, tk)
                  /\ UNCHANGED started
    /\ UNCHANGED <<users, messages, remote, lock, stopped>>
    /\ UNCHANGED TaskFrame

\* mutant of lock_free: the lock is taken whether it is held or not
lock_free_always ==
    TRUE

\* asyncio.Lock: acquire returns when no task holds the lock
lock_free ==
    lock = Null

\* `async with self._lock` is entered by a task about to run a cache or
\* registry operation
acquire(t) ==
    /\ tasks[t].pc \in CachePcs
    /\ ~tasks[t].locked
    /\ lock_free
    /\ lock' = t
    /\ Proceed(t, [tasks[t] EXCEPT !.locked = TRUE])
    /\ UNCHANGED <<cache, remote, stopped, started>>
    /\ UNCHANGED TaskFrame

\* task t is inside `async with self._lock` of the operation at p
Inside(t, p) ==
    /\ tasks[t].pc = p
    /\ tasks[t].locked

\* mutant of Released: the task stays inside the block
StillInside(tk) ==
    tk

\* the task record on leaving `async with self._lock`
Released(tk) ==
    [tk EXCEPT !.locked = FALSE]

\* _reconcile_category: registry.get_category_by_name scans the categories
\* under the lock; a hit goes on to the channels, a miss to create_category
task_get_category_by_name(t) ==
    /\ Inside(t, "category")
    /\ lock' = Null
    /\ LET tk == Released(tasks[t])
           found == FirstMatch(categories, Resolved.categories[tk.ci].name, ServerId)
       IN IF found = None
          THEN Proceed(t, [tk EXCEPT !.pc = "create_category"])
          ELSE MoveTo(t, [tk EXCEPT !.category_id = found[1].id],
                      NextChannel(Resolved, tk.ci, 1))
    /\ UNCHANGED <<cache, remote, stopped, started>>
    /\ UNCHANGED TaskFrame

\* guild.create_category returns the new remote category
task_create_category_returns(t) ==
    /\ Resumable(t, "create_category")
    /\ LET obj == [kind |-> "category", id |-> NewRemoteId,
                   name |-> Resolved.categories[tasks[t].ci].name, parent_id |-> Null]
       IN /\ remote' = Append(remote, obj)
          /\ Proceed(t, [tasks[t] EXCEPT !.pc = "save_category", !.obj = <<obj>>])
    /\ UNCHANGED <<cache, lock, stopped, started>>
    /\ UNCHANGED TaskFrame

\* guild.create_category raises: reconcile raises ReconciliationError
task_create_category_raises(t) ==
    /\ Resumable(t, "create_category")
    /\ reconcile_raises(t, tasks[t])
    /\ UNCHANGED <<cache, remote, lock, stopped, started>>
    /\ UNCHANGED TaskFrame

\* mutant of task_save_category: the created category is not written to the
\* cache
task_save_category_unsaved(t) ==
    /\ Inside(t, "save_category")
    /\ lock' = Null
    /\ MoveTo(t, [Released(tasks[t]) EXCEPT !.category_id = tasks[t].obj[1].id],
              NextChannel(Resolved, tasks[t].ci, 1))
    /\ UNCHANGED <<cache, remote, stopped, started>>
    /\ UNCHANGED TaskFrame

\* store.save_category(Category(...)) of the created category
task_save_category(t) ==
    /\ Inside(t, "save_category")
    /\ lock' = Null
    /\ LET tk == Released(tasks[t])
           category == CategoryOf(tk.obj[1])
       IN /\ categories' = DictSet(categories, category)
          /\ MoveTo(t, [tk EXCEPT !.category_id = category.id],
                    NextChannel(Resolved, tk.ci, 1))
    /\ UNCHANGED <<channels, users, messages, remote, stopped, started>>
    /\ UNCHANGED TaskFrame

\* the channel template task t is reconciling
ChannelTemplateOf(tk) ==
    ChannelsAt(Resolved, tk.ci)[tk.chi]

\* the category_id argument of _reconcile_channel in task t
ParentIdOf(tk) ==
    IF tk.ci <= Len(Resolved.categories) THEN tk.category_id ELSE Null

\* _reconcile_channel: registry.get_channel_by_name scans the channels under
\* the lock; a miss leads to create_text_channel for a TextChannelTemplate
task_get_channel_by_name(t) ==
    /\ Inside(t, "channel")
    /\ lock' = Null
    /\ LET tk == Released(tasks[t])
           found == FirstMatch(channels, ChannelTemplateOf(tk).name, ServerId)
       IN IF found = None /\ ChannelTemplateOf(tk).type = "text"
          THEN Proceed(t, [tk EXCEPT !.pc = "create_text_channel"])
          ELSE MoveTo(t, tk, NextChannel(Resolved, tk.ci, tk.chi + 1))
    /\ UNCHANGED <<cache, remote, stopped, started>>
    /\ UNCHANGED TaskFrame

\* guild.create_text_channel returns the new remote channel
task_create_text_channel_returns(t) ==
    /\ Resumable(t, "create_text_channel")
    /\ LET obj == [kind |-> "text", id |-> NewRemoteId,
                   name |-> ChannelTemplateOf(tasks[t]).name,
                   parent_id |-> ParentIdOf(tasks[t])]
       IN /\ remote' = Append(remote, obj)
          /\ Proceed(t, [tasks[t] EXCEPT !.pc = "save_channel", !.obj = <<obj>>])
    /\ UNCHANGED <<cache, lock, stopped, started>>
    /\ UNCHANGED TaskFrame

\* guild.create_text_channel raises: reconcile raises ReconciliationError
task_create_text_channel_raises(t) ==
    /\ Resumable(t, "create_text_channel")
    /\ reconcile_raises(t, tasks[t])
    /\ UNCHANGED <<cache, remote, lock, stopped, started>>
    /\ UNCHANGED TaskFrame

\* Channel(...) of the created channel, as _reconcile_channel builds it
CreatedChannel(tk) ==
    [id |-> tk.obj[1].id, name |-> tk.obj[1].name, category_id |-> ParentIdOf(tk),
     server_id |-> ServerId]

\* store.save_channel: the category check under the lock; StateError leaves
\* the block, which releases the lock, and reconcile raises
task_save_channel_check(t) ==
    /\ Inside(t, "save_channel")
    /\ IF SaveChannelError(CreatedChannel(tasks[t])) # ""
       THEN /\ lock' = Null
            /\ reconcile_raises(t, Released(tasks[t]))
       ELSE /\ UNCHANGED lock
            /\ Proceed(t, [tasks[t] EXCEPT !.pc = "save_channel_write"])
    /\ UNCHANGED <<cache, remote, stopped, started>>
    /\ UNCHANGED TaskFrame

\* store.save_channel: the write that follows the check, and the release
task_save_channel_write(t) ==
    /\ Inside(t, "save_channel_write")
    /\ lock' = Null
    /\ channels' = DictSet(channels, CreatedChannel(tasks[t]))
    /\ MoveTo(t, Released(tasks[t]), NextChannel(Resolved, tasks[t].ci, tasks[t].chi + 1))
    /\ UNCHANGED <<categories, users, messages, remote, stopped, started>>
    /\ UNCHANGED TaskFrame

RECURSIVE SumPasses(_)

SumPasses(n) ==
    IF n = 0 THEN 0 ELSE tasks[n].passes + SumPasses(n - 1)

\* the wake-ups of the loop tasks so far
Wakes == SumPasses(Len(tasks))

\* asyncio.sleep(reconcile_interval) returns in a loop task: with a template
\* it fetches the guild, without one it sleeps again
wake(t) ==
    /\ Resumable(t, "sleep")
    /\ Wakes < MaxPasses
    /\ template # NoTemplate
    /\ Proceed(t, [tasks[t] EXCEPT !.pc = "fetch_guild", !.passes = @ + 1])
    /\ UNCHANGED <<cache, remote, lock, stopped, started>>
    /\ UNCHANGED TaskFrame

\* the tasks Task.cancel() has an effect on: those that have not ended
Live(t) ==
    tasks[t].pc \notin {"done", "cancelled"}

\* Bot.stop(): the task Bot._reconcile_task names, if any, is cancelled
stop ==
    /\ ~stopped
    /\ stopped' = TRUE
    /\ tasks' = IF reconcile_task # Null /\ Live(reconcile_task)
                THEN [tasks EXCEPT ![reconcile_task].cancel = TRUE]
                ELSE tasks
    /\ UNCHANGED <<cache, remote, lock, reconcile_task, started>>
    /\ UNCHANGED TaskFrame

\* CancelledError is thrown into a cancelled task where it is suspended; no
\* `except Exception` catches it, and the task ends
cancelled(t) ==
    /\ tasks[t].cancel
    /\ tasks[t].pc \in SuspendPcs
    /\ Proceed(t, [tasks[t] EXCEPT !.pc = "cancelled", !.cancel = FALSE])
    /\ UNCHANGED <<cache, remote, lock, stopped, started>>
    /\ UNCHANGED TaskFrame

\* the client dispatches a MessageCreate event: _on_message runs as a new
\* task; a bot's message ends it at once, another author is to be saved
task_on_message(ev) ==
    /\ ~stopped
    /\ Cardinality(TasksOf("on_message")) < MaxMessages
    /\ tasks' = Append(tasks, [Task("on_message",
                                    IF ev.author_bot THEN "done" ELSE "save_user", Null)
                               EXCEPT !.ev = <<ev>>])
    /\ UNCHANGED <<cache, remote, lock, reconcile_task, stopped, started>>
    /\ UNCHANGED TaskFrame

\* state.save_user(user)
task_save_user(t) ==
    /\ Inside(t, "save_user")
    /\ lock' = Null
    /\ users' = MapSet(users, UserOf(tasks[t].ev[1]))
    /\ Proceed(t, [Released(tasks[t]) EXCEPT !.pc = "save_message"])
    /\ UNCHANGED <<categories, channels, messages, remote, stopped, started>>
    /\ UNCHANGED TaskFrame

\* the message _on_message is saving: the author's, or after the reply the
\* bot's own
MessageToSave(tk) ==
    IF tk.response = "" THEN MessageOf(tk.ev[1]) ELSE BotMessageOf(tk.ev[1], tk.response)

\* state.save_message: the user and channel checks under the lock;
\* StateError leaves the block, which releases the lock, and is logged
task_save_message_check(t) ==
    /\ Inside(t, "save_message")
    /\ IF SaveMessageError(MessageToSave(tasks[t])) # ""
       THEN /\ lock' = Null
            /\ Proceed(t, [Released(tasks[t]) EXCEPT !.pc = "done", !.error = "StateError"])
       ELSE /\ UNCHANGED lock
            /\ Proceed(t, [tasks[t] EXCEPT !.pc = "save_message_write"])
    /\ UNCHANGED <<cache, remote, stopped, started>>
    /\ UNCHANGED TaskFrame

\* state.save_message: the write that follows the checks, and the release;
\* after the author's message the channel is read, after the bot's the
\* handler loop breaks
task_save_message_write(t) ==
    /\ Inside(t, "save_message_write")
    /\ lock' = Null
    /\ messages' = MapSet(messages, MessageToSave(tasks[t]))
    /\ Proceed(t, [Released(tasks[t]) EXCEPT
                      !.pc = IF tasks[t].response = "" THEN "get_channel" ELSE "done"])
    /\ UNCHANGED <<categories, channels, users, remote, stopped, started>>
    /\ UNCHANGED TaskFrame

\* channel = await self.state.get_channel(msg.channel_id); without a channel
\* the handler returns; with one, the first handler that can handle the
\* message reads the history (ctx.get_history)
task_get_channel(t, can_handle) ==
    /\ Inside(t, "get_channel")
    /\ lock' = Null
    /\ Proceed(t, [Released(tasks[t]) EXCEPT
                      !.pc = IF DictGet(channels, tasks[t].ev[1].channel_id) # None
                                /\ can_handle
                             THEN "get_messages" ELSE "done"])
    /\ UNCHANGED <<cache, remote, stopped, started>>
    /\ UNCHANGED TaskFrame

\* state.get_messages scans the messages under the lock; the handler then
\* awaits its answer
task_get_messages(t) ==
    /\ Inside(t, "get_messages")
    /\ lock' = Null
    /\ Proceed(t, [Released(tasks[t]) EXCEPT !.pc = "generate_async"])
    /\ UNCHANGED <<cache, remote, stopped, started>>
    /\ UNCHANGED TaskFrame

\* handler.handle returns: an empty response breaks the loop, another one is
\* sent as a reply
handle_returns(t, response) ==
    /\ Resumable(t, "generate_async")
    /\ Proceed(t, IF response = ""
                  THEN [tasks[t] EXCEPT !.pc = "done"]
                  ELSE [tasks[t] EXCEPT !.pc = "reply", !.response = response])
    /\ UNCHANGED <<cache, remote, lock, stopped, started>>
    /\ UNCHANGED TaskFrame

\* message.reply(response) returns: the bot's message is to be saved
reply_returns(t) ==
    /\ Resumable(t, "reply")
    /\ Proceed(t, [tasks[t] EXCEPT !.pc = "save_message"])
    /\ UNCHANGED <<cache, remote, lock, stopped, started>>
    /\ UNCHANGED TaskFrame

\* message.reply(response) raises: the exception is logged
reply_raises(t) ==
    /\ Resumable(t, "reply")
    /\ Proceed(t, [tasks[t] EXCEPT !.pc = "done", !.error = "RemoteError"])
    /\ UNCHANGED <<cache, remote, lock, stopped, started>>
    /\ UNCHANGED TaskFrame

----------------------------------------------------------------------------
(* The task specification: a Bot with or without a template, with the      *)
(* periodic reconciliation on or off, whose tasks interleave.              *)

SettingsInputs ==
    [reconcile_interval : {0, reconcile_interval_default}, auto_reconcile : BOOLEAN]

InitBot ==
    /\ InitCache
    /\ InitReconciler
    /\ InitDiscovery
    /\ InitIngest
    /\ InitSinks
    /\ tasks = <<>>
    /\ lock = Null
    /\ reconcile_task = Null
    /\ settings \in SettingsInputs
    /\ stopped = FALSE
    /\ started = <<>>
    /\ template \in {NoTemplate, BotTemplate}

OnReady == on_ready

FetchGuildReturns == \E t \in TaskIds : fetch_guild_returns(t)

FetchGuildRaises == \E t \in TaskIds : fetch_guild_raises(t)

Discover == \E t \in TaskIds : discover(t)

Acquire == \E t \in TaskIds : acquire(t)

TaskGetCategoryByName == \E t \in TaskIds : task_get_category_by_name(t)

TaskCreateCategoryReturns == \E t \in TaskIds : task_create_category_returns(t)

TaskCreateCategoryRaises == \E t \in TaskIds : task_create_category_raises(t)

TaskSaveCategory == \E t \in TaskIds : task_save_category(t)

TaskGetChannelByName == \E t \in TaskIds : task_get_channel_by_name(t)

TaskCreateTextChannelReturns == \E t \in TaskIds : task_create_text_channel_returns(t)

TaskCreateTextChannelRaises == \E t \in TaskIds : task_create_text_channel_raises(t)

TaskSaveChannelCheck == \E t \in TaskIds : task_save_channel_check(t)

TaskSaveChannelWrite == \E t \in TaskIds : task_save_channel_write(t)

Wake == \E t \in TaskIds : wake(t)

Stop == stop

Cancelled == \E t \in TaskIds : cancelled(t)

TaskOnMessage == \E ev \in MessageEvents : task_on_message(ev)

TaskSaveUser == \E t \in TaskIds : task_save_user(t)

TaskSaveMessageCheck == \E t \in TaskIds : task_save_message_check(t)

TaskSaveMessageWrite == \E t \in TaskIds : task_save_message_write(t)

TaskGetChannel == \E t \in TaskIds, can_handle \in BOOLEAN : task_get_channel(t, can_handle)

TaskGetMessages == \E t \in TaskIds : task_get_messages(t)

HandleReturns == \E t \in TaskIds, response \in Responses : handle_returns(t, response)

ReplyReturns == \E t \in TaskIds : reply_returns(t)

ReplyRaises == \E t \in TaskIds : reply_raises(t)

NextBot ==
    \/ OnReady
    \/ FetchGuildReturns
    \/ FetchGuildRaises
    \/ Discover
    \/ Acquire
    \/ TaskGetCategoryByName
    \/ TaskCreateCategoryReturns
    \/ TaskCreateCategoryRaises
    \/ TaskSaveCategory
    \/ TaskGetChannelByName
    \/ TaskCreateTextChannelReturns
    \/ TaskCreateTextChannelRaises
    \/ TaskSaveChannelCheck
    \/ TaskSaveChannelWrite
    \/ Wake
    \/ Stop
    \/ Cancelled

SpecBot == InitBot /\ [][NextBot]_vars

\* a Bot with a template, with the startup reconcile and without the
\* periodic one
InitLock ==
    /\ InitCache
    /\ InitReconciler
    /\ InitDiscovery
    /\ InitIngest
    /\ InitSinks
    /\ tasks = <<>>
    /\ lock = Null
    /\ reconcile_task = Null
    /\ settings = [reconcile_interval |-> 0, auto_reconcile |-> TRUE]
    /\ stopped = FALSE
    /\ started = <<>>
    /\ template = BotTemplate

NextLock ==
    \/ OnReady
    \/ FetchGuildReturns
    \/ FetchGuildRaises
    \/ Discover
    \/ Acquire
    \/ TaskGetCategoryByName
    \/ TaskCreateCategoryReturns
    \/ TaskCreateCategoryRaises
    \/ TaskSaveCategory
    \/ TaskGetChannelByName
    \/ TaskCreateTextChannelReturns
    \/ TaskCreateTextChannelRaises
    \/ TaskSaveChannelCheck
    \/ TaskSaveChannelWrite
    \/ TaskOnMessage
    \/ TaskSaveUser
    \/ TaskSaveMessageCheck
    \/ TaskSaveMessageWrite
    \/ TaskGetChannel
    \/ TaskGetMessages
    \/ HandleReturns
    \/ ReplyReturns
    \/ ReplyRaises

SpecLock == InitLock /\ [][NextLock]_vars

\* the calls of Reconciler.reconcile made by task t
StartedBy(t) ==
    {i \in 1..Len(started) : started[i].task = t}

\* C22: with reconcile_interval = 0 no _reconcile_loop task exists and
\* Bot._reconcile_task stays None, so every reconcile call is the startup
\* call of a ready handler, at most one per ready event, and made only with
\* a template and auto_reconcile; with reconcile_interval > 0 every ready
\* handler that reached the end of its try block has created a loop task.
C22_IntervalGatesPeriodicTask ==
    /\ \A t \in TasksOf("on_ready") :
          /\ Cardinality(StartedBy(t)) <= 1
          /\ StartedBy(t) # {} => template # NoTemplate /\ settings.auto_reconcile
    /\ settings.reconcile_interval = 0 =>
          /\ TasksOf("reconcile_loop") = {}
          /\ reconcile_task = Null
          /\ \A i \in 1..Len(started) : started[i].kind = "on_ready"
          /\ Len(started) <= Cardinality(TasksOf("on_ready"))
    /\ settings.reconcile_interval > 0 =>
          \A t \in TasksOf("on_ready") :
             tasks[t].pc = "done" /\ tasks[t].error = ""
             => \E u \in TasksOf("reconcile_loop") : tasks[u].parent = t

\* two ready events handled with reconcile_interval = 0, each with its one
\* startup reconcile
C22_Witness ==
    /\ settings.reconcile_interval = 0
    /\ Cardinality(TasksOf("on_ready")) = 2
    /\ \A t \in TasksOf("on_ready") : tasks[t].pc = "done" /\ tasks[t].error = ""
    /\ Len(started) = 2

\* a ready event handled with reconcile_interval > 0, whose loop task has
\* called reconcile
C22_WitnessPeriodic ==
    /\ settings.reconcile_interval > 0
    /\ \E i \in 1..Len(started) : started[i].kind = "reconcile_loop"

\* C23: no _reconcile_loop task calls reconcile once Bot.stop() has been
\* called and the cancellation it requested has been thrown into its task.
C23_NoPassAfterStop ==
    \A i \in 1..Len(started) :
       started[i].kind = "reconcile_loop" => ~started[i].after_stop

\* where a task is about to run, or runs, operations of the cache
CacheOpPcs == CachePcs \cup {"discover"}

\* C27: at most one task is inside `async with self._lock` at any time, the
\* lock names that task, and while a task stays inside (between the check of
\* save_channel / save_message and the write, or while other tasks take
\* steps) the cache is not changed and no other task enters or runs a cache
\* operation.
C27_SingleLock ==
    /\ [](\A t, u \in TaskIds : tasks[t].locked /\ tasks[u].locked => t = u)
    /\ [](\A t \in TaskIds : tasks[t].locked <=> lock = t)
    /\ [][\A h \in TaskIds :
             tasks[h].locked /\ tasks'[h].locked
             => /\ cache' = cache
                /\ \A u \in TaskIds \ {h} :
                      /\ ~tasks'[u].locked
                      /\ tasks[u].pc \in CacheOpPcs => tasks'[u].pc = tasks[u].pc]_vars

\* a task between the check and the write of save_channel while the
\* on_message task waits for the lock with a save of its own
C27_Witness ==
    \E h, u \in TaskIds :
       /\ Inside(h, "save_channel_write")
       /\ tasks[u].pc \in {"save_user", "save_message", "get_channel"}
       /\ ~tasks[u].locked
       /\ lock = h

\* a task between the checks and the write of save_message while a
\* reconcile waits for the lock
C27_WitnessMessage ==
    \E h, u \in TaskIds :
       /\ Inside(h, "save_message_write")
       /\ tasks[u].pc \in {"category", "channel", "save_category", "save_channel"}
       /\ ~tasks[u].locked

\* C28: a task that awaits a remote call (fetch_guild, create_category,
\* create_text_channel, reply), its handler's answer or its sleep does not
\* hold the lock, and a task that holds the lock is at a read or write of
\* the cache's maps.
C28_NoLockAcrossRemoteCall ==
    \A t \in TaskIds :
       /\ tasks[t].pc \in SuspendPcs => ~tasks[t].locked /\ lock # t
       /\ tasks[t].locked \/ lock = t => tasks[t].pc \in CachePcs

\* a task awaits create_text_channel while another task, which awaited
\* create_category before, holds the lock for its save
C28_Witness ==
    \E t, h \in TaskIds :
       /\ tasks[t].pc = "create_text_channel"
       /\ Inside(h, "save_category")
       /\ lock = h

\* the on_message task awaits its reply while a reconcile holds the lock
C28_WitnessReply ==
    \E t, h \in TaskIds :
       /\ tasks[t].pc = "reply"
       /\ tasks[h].locked
       /\ lock = h

\* the remote object is cached, or the task that created it is about to
\* save it
CachedOrPending(obj) ==
    \/ obj.kind = "category" /\ obj.id \in Keys(categories)
    \/ obj.kind = "text" /\ obj.id \in Keys(channels)
    \/ \E t \in TaskIds :
          /\ tasks[t].pc \in {"save_category", "save_channel", "save_channel_write"}
          /\ tasks[t].obj = <<obj>>

\* C29: the lock does not prevent duplicate creation.  Two remote entities
\* of one kind and name exist only after two tasks have called reconcile;
\* they have different ids, and each is cached under its id or about to be
\* saved by the task that created it.  The state the claim describes, two
\* remote entities and two cache entries of one name, is reachable
\* (C29_Witness).
C29_DuplicateCreation ==
    \A i, j \in 1..Len(remote) :
       i < j /\ remote[i].kind = remote[j].kind /\ remote[i].name = remote[j].name
       => /\ remote[i].id # remote[j].id
          /\ Cardinality({started[k].task : k \in 1..Len(started)}) >= 2
          /\ CachedOrPending(remote[i])
          /\ CachedOrPending(remote[j])

\* two remote categories named "log" and two cached categories named "log"
\* with different ids, after two tasks both missed the lookup
C29_Witness ==
    /\ \E i, j \in 1..Len(remote) :
          /\ i < j
          /\ remote[i].kind = "category" /\ remote[j].kind = "category"
          /\ remote[i].name = "log" /\ remote[j].name = "log"
    /\ \E i, j \in 1..Len(categories) :
          /\ categories[i].id # categories[j].id
          /\ categories[i].name = "log" /\ categories[j].name = "log"

\* the kind and name of the remote entity task t asks the remote system to
\* create
Creating(t) ==
    IF tasks[t].pc = "create_category"
    THEN [kind |-> "category", name |-> Resolved.categories[tasks[t].ci].name]
    ELSE [kind |-> "text", name |-> ChannelTemplateOf(tasks[t]).name]

\* the remote entities of the kind and name task t is creating, among the
\* first n of the remote workspace
ExistingAmong(t, n) ==
    {i \in 1..n : /\ remote[i].kind = Creating(t).kind
                  /\ remote[i].name = Creating(t).name}

\* the ready handlers whose startup reconcile awaits a creation call
StartupCreating ==
    {t \in TasksOf("on_ready") : tasks[t].pc \in {"create_category", "create_text_channel"}}

\* C31 as stated: the startup reconcile never awaits a creation call for a
\* category or text channel that exists in the remote workspace under the
\* template's name.
C31_NoCreationOfExisting ==
    \A t \in StartupCreating : ExistingAmong(t, Len(remote)) = {}

\* C31, amended: a ready handler calls reconcile only after its discovery
\* has run, and its startup reconcile never awaits a creation call for a
\* category or text channel that existed in the remote workspace under the
\* template's name when its discovery ran.
C31_DiscoveryBeforeStartupReconcile ==
    /\ \A t \in TasksOf("on_ready") :
          StartedBy(t) # {} => tasks[t].seen # None /\ tasks[t].error # "DiscordAPIError"
    /\ \A t \in StartupCreating : ExistingAmong(t, tasks[t].seen[1]) = {}

\* a ready handler whose discovery found the category and the channel a
\* former ready event had created, and whose startup reconcile ended without
\* a creation call
C31_Witness ==
    \E t \in TasksOf("on_ready") :
       /\ tasks[t].pc = "done"
       /\ tasks[t].seen = <<2>>
       /\ StartedBy(t) # {}
       /\ Len(remote) = 2

\* the _reconcile_loop tasks that have not ended
LiveLoops ==
    {t \in TasksOf("reconcile_loop") : Live(t)}

\* C35: with reconcile_interval > 0, whatever ready events were received, at
\* most one _reconcile_loop task is alive, and it is the task
\* Bot._reconcile_task names, the one Bot.stop() cancels.
C35_OnePeriodicTask ==
    settings.reconcile_interval > 0 =>
       /\ Cardinality(LiveLoops) <= 1
       /\ \A t \in LiveLoops : reconcile_task = t

\* the _reconcile_loop tasks the ready handler t created
LoopsOf(t) ==
    {u \in TasksOf("reconcile_loop") : tasks[u].parent = t}

----------------------------------------------------------------------------
(* The task specification under fair scheduling: the event loop resumes    *)
(* every task that can run, a sleep ends, an awaited remote call returns   *)
(* or raises, and the lock is granted once it is free.  The client's       *)
(* events and Bot.stop() are under no obligation to happen.                *)

SpecLoop ==
    /\ SpecBot
    /\ WF_vars(Wake)
    /\ WF_vars(FetchGuildReturns \/ FetchGuildRaises)
    /\ WF_vars(Discover)
    /\ WF_vars(Acquire)
    /\ WF_vars(TaskGetCategoryByName)
    /\ WF_vars(TaskCreateCategoryReturns \/ TaskCreateCategoryRaises)
    /\ WF_vars(TaskSaveCategory)
    /\ WF_vars(TaskGetChannelByName)
    /\ WF_vars(TaskCreateTextChannelReturns \/ TaskCreateTextChannelRaises)
    /\ WF_vars(TaskSaveChannelCheck)
    /\ WF_vars(TaskSaveChannelWrite)
    /\ WF_vars(Cancelled)

\* a periodic pass can be attempted: a loop task exists, the bot is not
\* stopped, a template is set, and n wake-ups have happened
PassDue(n) ==
    /\ TasksOf("reconcile_loop") # {}
    /\ ~stopped
    /\ template # NoTemplate
    /\ Wakes = n

\* C36: a failure inside the periodic loop does not end it.  A loop task
\* never returns: it ends by cancellation only, which Bot.stop() alone
\* requests, and after a logged failure it is back at its sleep or further.
\* While a loop task exists, the bot is not stopped and a template is set,
\* another pass is attempted (the loop wakes and fetches the guild) after
\* every number of wake-ups below MaxPasses, or the bot is stopped.
C36_LoopSurvivesFailure ==
    /\ [](\A t \in TasksOf("reconcile_loop") :
            /\ tasks[t].pc # "done"
            /\ tasks[t].pc = "cancelled" \/ tasks[t].cancel => stopped)
    /\ \A n \in 0..(MaxPasses - 1) : PassDue(n) ~> (stopped \/ Wakes > n)

\* a loop task whose first pass failed and was logged fetches the guild for
\* its second pass
C36_Witness ==
    \E t \in TasksOf("reconcile_loop") :
       /\ tasks[t].error # ""
       /\ tasks[t].passes = 2
       /\ tasks[t].pc = "fetch_guild"

\* the tasks whose reconcile is at store.save_channel
SavingChannel ==
    {t \in TaskIds : tasks[t].pc \in {"save_channel", "save_channel_write"}}

\* C39: whenever a reconcile is at store.save_channel, before, at or after
\* the category check, the channel it saves carries a null category_id or
\* the id of a cached category, so the check does not raise StateError; this
\* holds while ready handlers discover and reconcile and a message is
\* ingested concurrently.
C39_ReconcileSavesConsistentChannel ==
    \A t \in SavingChannel :
       /\ \/ CreatedChannel(tasks[t]).category_id = Null
          \/ CreatedChannel(tasks[t]).category_id \in Keys(categories)
       /\ SaveChannelError(CreatedChannel(tasks[t])) = ""

\* a reconcile inside the category check of save_channel for a channel with
\* a category, while a message's ingestion and another ready handler are
\* under way
C39_Witness ==
    \E t \in SavingChannel :
       /\ Inside(t, "save_channel")
       /\ CreatedChannel(tasks[t]).category_id # Null
       /\ \E u \in TasksOf("on_message") : Live(u)
       /\ \E u \in TasksOf("on_ready") \ {t} : Live(u)

\* the lookups of a run that found a cached channel whose category is not
\* the one the template belongs to
FoundElsewhere ==
    {i \in 1..Len(log) :
        /\ log[i].ev = "get_channel_by_name"
        /\ log[i].ok
        /\ DictGet(channels, log[i].id)[1].category_id # log[i].parent_id}

\* C38: ensure-channel looks the channel up by name in the whole server.  A
\* creation call for a channel template is awaited only while no cached
\* channel of the server has the template's name, in whatever category; a
\* lookup that found a channel, of the template's category or of another or
\* of none, is followed by no creation call and no save for that template,
\* and every creation call follows a lookup of its name that found nothing.
C38_ChannelLookupIgnoresCategory ==
    /\ pc = "create_channel"
       => Named(channels, ChannelsAt(resolved, ci)[chi].name, ServerId) = {}
    /\ \A i \in 1..Len(log) :
          /\ log[i].ev = "get_channel_by_name" /\ log[i].ok /\ i < Len(log)
             => log[i + 1].ev \notin {"create_text_channel", "save_channel"}
          /\ log[i].ev = "create_text_channel"
             => /\ i > 1
                /\ log[i - 1].ev = "get_channel_by_name"
                /\ log[i - 1].name = log[i].name
                /\ ~log[i - 1].ok

\* a complete run whose template names one text channel under two
\* categories: the second lookup found the channel cached under the first
\* category, and the remote workspace holds one channel of that name
C38_Witness ==
    /\ pc = "done"
    /\ \E i \in FoundElsewhere :
          /\ log[i].parent_id # Null
          /\ DictGet(channels, log[i].id)[1].category_id # Null
          /\ Cardinality({j \in 1..Len(remote) :
                             remote[j].kind = "text" /\ remote[j].name = log[i].name}) = 1

\* every entity of the dict d is in the dict e under its id with the name
\* and the server_id it had
KeepsNames(d, e) ==
    \A x \in Range(d) :
       \E y \in Range(e) : y.id = x.id /\ y.name = x.name /\ y.server_id = x.server_id

\* the name lookups that find an entity in d find the entity of the same id
\* in e
SameLookups(d, e, names) ==
    \A name \in names, server_id \in ServerIds :
       LET before == FirstMatch(d, name, server_id)
           after == FirstMatch(e, name, server_id)
       IN before # None => after # None /\ after[1].id = before[1].id

----------------------------------------------------------------------------
(* MessageHandler.split_message.  A text is a sequence of characters.      *)

\* longest text split
MaxText == 6

\* the characters of the texts: a letter and the line feed
TextChars == {"a", "\n"}

TextInputs ==
    UNION {[1..n -> TextChars] : n \in 0..MaxText}

\* Settings.max_message_length, validated to lie in 1..2000
MaxMessageLengthInputs == 1..3

RECURSIVE SplitLines(_, _)

\* text.split("\n"), with cur the line read so far: every line feed ends a
\* line, and the rest of the text, empty or not, is the last line
SplitLines(text, cur) ==
    IF text = <<>> THEN <<cur>>
    ELSE IF Head(text) = "\n" THEN <<cur>> \o SplitLines(Tail(text), <<>>)
    ELSE SplitLines(Tail(text), Append(cur, Head(text)))

\* one turn of `for line in text.split("\n")` on the chunks so far and the
\* current chunk
split_message_step(st, line, max_message_length) ==
    LET delimiter == IF st.current # <<>> THEN <<"\n">> ELSE <<>>
    IN IF Len(st.current) + Len(delimiter) + Len(line) > max_message_length
       THEN [chunks |-> IF st.current # <<>> THEN Append(st.chunks, st.current)
                        ELSE st.chunks,
             current |-> line]
       ELSE [chunks |-> st.chunks, current |-> st.current \o delimiter \o line]

RECURSIVE split_message_loop(_, _, _)

\* the loop over the lines, and the last chunk appended when not empty
split_message_loop(st, lines, max_message_length) ==
    IF lines = <<>>
    THEN IF st.current # <<>> THEN Append(st.chunks, st.current) ELSE st.chunks
    ELSE split_message_loop(split_message_step(st, Head(lines), max_message_length),
                            Tail(lines), max_message_length)

\* MessageHandler.split_message(text)
split_message(text, max_message_length) ==
    IF Len(text) <= max_message_length THEN <<text>>
    ELSE split_message_loop([chunks |-> <<>>, current |-> <<>>],
                            SplitLines(text, <<>>), max_message_length)

\* handler.split_message(text) of a MessageHandler with the given limit
SplitMessage ==
    /\ call.op = "init"
    /\ \E text \in TextInputs, max_message_length \in MaxMessageLengthInputs :
          /\ call' = Call("split_message",
                          [text |-> text, max_message_length |-> max_message_length], None)
          /\ ret' = Return(split_message(text, max_message_length))
    /\ UNCHANGED <<cache, rec>>

NextSplit ==
    SplitMessage

SpecSplit == Init /\ [][NextSplit]_vars

\* C34: every chunk split_message returns has at most max_message_length
\* characters.
C34_ChunksWithinLimit ==
    call.op = "split_message"
    => \A k \in 1..Len(ret.value) : Len(ret.value[k]) <= call.arg.max_message_length

----------------------------------------------------------------------------
(* The dispatch of a message to the handlers: HandlerRouter.route and the  *)
(* handler loops of the two Bots.  A handler is what its can_handle and    *)
(* its handle do when awaited: can_handle returns true or false or raises, *)
(* handle returns None, "" or a text, or raises.                           *)

\* longest list of handlers
MaxHandlers == 3

HandlerInputs ==
    [can_handle : {"true", "false", "raise"},
     handle : {[raises |-> TRUE, response |-> None]}
              \cup {[raises |-> FALSE, response |-> r] : r \in {None, <<"">>, <<"ok">>}}]

HandlerListInputs ==
    UNION {[1..n -> HandlerInputs] : n \in 0..MaxHandlers}

\* the record of an awaited method of the k-th handler
HandlerCall(op, k) ==
    [op |-> op, handler |-> k]

\* what a dispatch did: the calls it awaited, in order, its response (what
\* route returns, what a Bot replies with; None for none), and whether a
\* call raised
Dispatched(calls, response, failed) ==
    [calls |-> calls, response |-> response, raised |-> failed]

RECURSIVE HandlerRouter_route(_, _, _, _)

\* HandlerRouter.route from the k-th handler on: the first handler whose
\* can_handle is true handles the message and its response is returned; an
\* exception of either call is logged and the loop goes on
HandlerRouter_route(handlers, k, calls, failed) ==
    IF k > Len(handlers) THEN Dispatched(calls, None, failed)
    ELSE LET asked == Append(calls, HandlerCall("can_handle", k))
             handled == Append(asked, HandlerCall("handle", k))
         IN IF handlers[k].can_handle = "raise"
            THEN HandlerRouter_route(handlers, k + 1, asked, TRUE)
            ELSE IF handlers[k].can_handle = "false"
            THEN HandlerRouter_route(handlers, k + 1, asked, failed)
            ELSE IF handlers[k].handle.raises
            THEN HandlerRouter_route(handlers, k + 1, handled, TRUE)
            ELSE Dispatched(handled, handlers[k].handle.response, failed)

\* `if response:` of the Bots: None and "" send no reply
Reply(response) ==
    IF response \in {None, <<"">>} THEN None ELSE response

RECURSIVE Bot_handlers(_, _, _)

\* the handler loop of discordia.bot.Bot._on_message from the k-th handler
\* on: a handler that cannot handle is passed over; the first that can
\* handles the message, its response is replied when not empty, and the
\* loop is left; an exception leaves _on_message's try block
Bot_handlers(handlers, k, calls) ==
    IF k > Len(handlers) THEN Dispatched(calls, None, FALSE)
    ELSE LET asked == Append(calls, HandlerCall("can_handle", k))
             handled == Append(asked, HandlerCall("handle", k))
         IN IF handlers[k].can_handle = "raise" THEN Dispatched(asked, None, TRUE)
            ELSE IF handlers[k].can_handle = "false"
            THEN Bot_handlers(handlers, k + 1, asked)
            ELSE IF handlers[k].handle.raises THEN Dispatched(handled, None, TRUE)
            ELSE Dispatched(handled, Reply(handlers[k].handle.response), FALSE)

RECURSIVE engine_Bot_handlers_no_break(_, _, _)

\* mutant of engine_Bot_handlers: the loop is not left after handle
engine_Bot_handlers_no_break(handlers, k, calls) ==
    IF k > Len(handlers) THEN Dispatched(calls, None, FALSE)
    ELSE LET asked == Append(calls, HandlerCall("can_handle", k))
             handled == Append(asked, HandlerCall("handle", k))
         IN IF handlers[k].can_handle = "raise" THEN Dispatched(asked, None, TRUE)
            ELSE IF handlers[k].can_handle = "true" /\ handlers[k].handle.raises
            THEN Dispatched(handled, None, TRUE)
            ELSE engine_Bot_handlers_no_break(
                    handlers, k + 1,
                    IF handlers[k].can_handle = "true" THEN handled ELSE asked)

RECURSIVE engine_Bot_handlers(_, _, _)

\* the handler loop of discordia.engine.bot.Bot._on_message from the k-th
\* handler on: the first handler whose can_handle is true handles the
\* message, its response is replied when not empty, and `break` leaves the
\* loop; an exception leaves _on_message's try block
engine_Bot_handlers(handlers, k, calls) ==
    IF k > Len(handlers) THEN Dispatched(calls, None, FALSE)
    ELSE LET asked == Append(calls, HandlerCall("can_handle", k))
             handled == Append(asked, HandlerCall("handle", k))
         IN IF handlers[k].can_handle = "raise" THEN Dispatched(asked, None, TRUE)
            ELSE IF handlers[k].can_handle = "true"
            THEN IF handlers[k].handle.raises THEN Dispatched(handled, None, TRUE)
                 ELSE Dispatched(handled, Reply(handlers[k].handle.response), FALSE)
            ELSE engine_Bot_handlers(handlers, k + 1, asked)

\* await HandlerRouter(handlers).route(ctx)
RouterRoute ==
    /\ call.op = "init"
    /\ \E handlers \in HandlerListInputs :
          /\ call' = Call("HandlerRouter.route", handlers, None)
          /\ ret' = Return(HandlerRouter_route(handlers, 1, <<>>, FALSE))
    /\ UNCHANGED <<cache, rec>>

\* the handler loop of discordia.bot.Bot for a saved message
BotHandlers ==
    /\ call.op = "init"
    /\ \E handlers \in HandlerListInputs :
          /\ call' = Call("Bot._on_message", handlers, None)
          /\ ret' = Return(Bot_handlers(handlers, 1, <<>>))
    /\ UNCHANGED <<cache, rec>>

\* the handler loop of discordia.engine.bot.Bot for a saved message
EngineBotHandlers ==
    /\ call.op = "init"
    /\ \E handlers \in HandlerListInputs :
          /\ call' = Call("engine.Bot._on_message", handlers, None)
          /\ ret' = Return(engine_Bot_handlers(handlers, 1, <<>>))
    /\ UNCHANGED <<cache, rec>>

NextRouter ==
    \/ RouterRoute
    \/ BotHandlers
    \/ EngineBotHandlers

SpecRouter == Init /\ [][NextRouter]_vars

DispatchOps == {"HandlerRouter.route", "Bot._on_message", "engine.Bot._on_message"}

\* the handlers of the list whose can_handle returns true
Matching(handlers) ==
    {k \in 1..Len(handlers) : handlers[k].can_handle = "true"}

\* can_handle awaited on the handlers 1..m, in list order
AskedUpTo(m) ==
    [k \in 1..m |-> HandlerCall("can_handle", k)]

\* C33: in a dispatch in which no awaited call raised, can_handle is awaited
\* on the handlers in list order up to the first whose can_handle returns
\* true, handle is awaited on that handler and on no other, and no call
\* follows it; the response is that handler's (for the Bots, the reply: its
\* response when not empty); when no handler matches, can_handle has been
\* awaited on every handler and there is no response.
C33_FirstMatchingHandler ==
    call.op \in DispatchOps /\ ~ret.value.raised
    => LET handlers == call.arg
           M == Matching(handlers)
       IN IF M = {}
          THEN /\ ret.value.calls = AskedUpTo(Len(handlers))
               /\ ret.value.response = None
          ELSE LET m == CHOOSE k \in M : \A j \in M : k <= j
               IN /\ ret.value.calls = Append(AskedUpTo(m), HandlerCall("handle", m))
                  /\ ret.value.response =
                        IF call.op = "HandlerRouter.route"
                        THEN handlers[m].handle.response
                        ELSE Reply(handlers[m].handle.response)

\* three handlers, the first of which cannot handle and the other two can:
\* the engine Bot asked the first two, the second handled, the third was
\* not asked
C33_Witness ==
    /\ call.op = "engine.Bot._on_message"
    /\ Len(call.arg) = 3
    /\ call.arg[1].can_handle = "false"
    /\ call.arg[2].can_handle = "true"
    /\ call.arg[3].can_handle = "true"
    /\ ret.value.calls = <<HandlerCall("can_handle", 1), HandlerCall("can_handle", 2),
                           HandlerCall("handle", 2)>>
    /\ ret.value.response = <<"ok">>

\* the same three handlers given to HandlerRouter.route
C33_WitnessRouter ==
    /\ call.op = "HandlerRouter.route"
    /\ Len(call.arg) = 3
    /\ call.arg[1].can_handle = "false"
    /\ call.arg[2].can_handle = "true"
    /\ call.arg[3].can_handle = "true"
    /\ ~ret.value.raised
    /\ ret.value.response = <<"ok">>

----------------------------------------------------------------------------
(* The message ingestion of discordia.bot.Bot: _on_message with            *)
(* _ensure_channel and _reply_and_record.  Its MemoryState                 *)
(* (discordia.state) makes the checks of the cache modelled above.  The    *)
(* handler moves from one await to the next (mpc), its event and the       *)
(* parent_id local of _ensure_channel are kept in mev; the discovery of    *)
(* the ready handler saves a category or a channel in between.             *)

RawMessageEvents ==
    [id : {0, 1}, content : {"hi"}, author_id : {0, 1}, username : {"a", "ann"},
     author_bot : BOOLEAN, channel_id : {0, 2}, channel_name : {"general", "no!"},
     parent_id : {Null, 1}, timestamp : {1}]

\* validate_channel_name on the names of the events
ValidChannelName(name) ==
    name # "no!"

\* _safe_username: "unknown" for an empty name, a one-character name is
\* padded, and the name is cut to 32 characters
SafeUsername(username) ==
    IF username = "" THEN "unknown"
    ELSE IF Len(username) = 1 THEN username \o "_"
    ELSE username

\* the locals of _on_message and _ensure_channel
IngestFrame(ev, parent_id) ==
    [ev |-> ev, parent_id |-> parent_id]

\* Channel(id=channel_id, name=..., server_id=..., category_id=parent_id)
EnsuredChannel(frame) ==
    [id |-> frame.ev.channel_id, name |-> frame.ev.channel_name,
     category_id |-> frame.parent_id, server_id |-> ServerId]

\* User(id=int(author.id or 0), username=_safe_username(author.username))
RawUserOf(ev) ==
    [id |-> ev.author_id, username |-> SafeUsername(ev.username)]

\* a MessageCreate event arrives: a bot's message and a message whose
\* channel has no positive id are dropped; otherwise _ensure_channel asks
\* the cache for the channel
Bot_on_message(ev) ==
    /\ mpc = "idle"
    /\ mev' = <<IngestFrame(ev, ev.parent_id)>>
    /\ mpc' = IF ev.author_bot \/ ev.channel_id <= 0 THEN "idle" ELSE "ensure_get_channel"
    /\ UNCHANGED <<cache, call, ret>>

\* _ensure_channel: a cached channel is returned; for an unknown one the
\* parent category is looked up when the event names one
Bot_ensure_channel_get ==
    /\ mpc = "ensure_get_channel"
    /\ get_channel(mev[1].ev.channel_id)
    /\ mpc' = IF ret'.value # None THEN "ingest_save_user"
              ELSE IF mev[1].parent_id # Null THEN "ensure_get_category"
              ELSE "ensure_save_channel"
    /\ UNCHANGED mev

\* mutant of Bot_ensure_channel_category: the parent_id of the event is
\* kept whether its category is cached or not
Bot_ensure_channel_category_keep ==
    /\ mpc = "ensure_get_category"
    /\ get_category(mev[1].parent_id)
    /\ mpc' = "ensure_save_channel"
    /\ UNCHANGED mev

\* _ensure_channel: parent_id becomes None when its category is not cached
Bot_ensure_channel_category ==
    /\ mpc = "ensure_get_category"
    /\ get_category(mev[1].parent_id)
    /\ mev' = IF ret'.value = None THEN <<IngestFrame(mev[1].ev, Null)>> ELSE mev
    /\ mpc' = "ensure_save_channel"

\* _ensure_channel: the Channel is built and saved; a name that is not a
\* channel name, or a StateError of the store, is logged and the message
\* is dropped
Bot_ensure_channel_save ==
    /\ mpc = "ensure_save_channel"
    /\ IF ~ValidChannelName(mev[1].ev.channel_name)
       THEN /\ mpc' = "idle"
            /\ UNCHANGED <<cache, call, ret>>
       ELSE /\ save_channel(EnsuredChannel(mev[1]))
            /\ mpc' = IF ret'.status = "raise" THEN "idle" ELSE "ingest_save_user"
    /\ UNCHANGED mev

\* the author is saved; an author without a positive id makes User(...)
\* raise, which the handler's except logs
Bot_save_user ==
    /\ mpc = "ingest_save_user"
    /\ IF mev[1].ev.author_id <= 0
       THEN /\ mpc' = "idle"
            /\ UNCHANGED <<cache, call, ret>>
       ELSE /\ save_user(RawUserOf(mev[1].ev))
            /\ mpc' = "ingest_save_message"
    /\ UNCHANGED mev

\* the message is saved; a message without a positive id makes Message(...)
\* raise, and that or a StateError of the store is logged by the except
Bot_save_message ==
    /\ mpc = "ingest_save_message"
    /\ IF mev[1].ev.id <= 0
       THEN /\ mpc' = "idle"
            /\ UNCHANGED <<cache, call, ret>>
       ELSE /\ save_message(MessageOf(mev[1].ev))
            /\ mpc' = IF ret'.status = "raise" THEN "idle" ELSE "ingest_handlers"
    /\ UNCHANGED mev

\* the handler loop: without an answer the handler ends; with one,
\* _reply_and_record replies and saves the bot's user
Bot_handlers_reply(response) ==
    /\ mpc = "ingest_handlers"
    /\ IF response = ""
       THEN /\ mpc' = "idle"
            /\ UNCHANGED <<cache, call, ret>>
       ELSE /\ save_user([id |-> BotUserId, username |-> "bot"])
            /\ mpc' = "ingest_record"
    /\ UNCHANGED mev

\* _reply_and_record: the reply is saved as the bot's message; a failure
\* is logged
Bot_reply_record(response) ==
    /\ mpc = "ingest_record"
    /\ save_message(BotMessageOf(mev[1].ev, response))
    /\ mpc' = "idle"
    /\ UNCHANGED mev

BotOnMessage ==
    /\ \E ev \in RawMessageEvents : Bot_on_message(ev)
    /\ UNCHANGED <<recon, disc, sinks, conc>>

BotEnsureChannelGet ==
    /\ Bot_ensure_channel_get
    /\ UNCHANGED <<recon, disc, sinks, conc>>

BotEnsureChannelCategory ==
    /\ Bot_ensure_channel_category
    /\ UNCHANGED <<recon, disc, sinks, conc>>

BotEnsureChannelSave ==
    /\ Bot_ensure_channel_save
    /\ UNCHANGED <<recon, disc, sinks, conc>>

BotSaveUser ==
    /\ Bot_save_user
    /\ UNCHANGED <<recon, disc, sinks, conc>>

BotSaveMessage ==
    /\ Bot_save_message
    /\ UNCHANGED <<recon, disc, sinks, conc>>

BotHandlersReply ==
    /\ \E response \in Responses : Bot_handlers_reply(response)
    /\ UNCHANGED <<recon, disc, sinks, conc>>

BotReplyRecord ==
    /\ Bot_reply_record("ok")
    /\ UNCHANGED <<recon, disc, sinks, conc>>

\* discover_categories of the ready handler saves a category
IngestDiscoverCategory ==
    /\ \E category \in [id : {1}, name : {"log"}, server_id : {ServerId}] :
          save_category(category)
    /\ UNCHANGED rec

\* discover_channels of the ready handler saves a channel without category
IngestDiscoverChannel ==
    /\ \E channel \in [id : {2}, name : {"general"}, category_id : {Null},
                        server_id : {ServerId}] :
          save_channel(channel)
    /\ UNCHANGED rec

NextIngest ==
    \/ BotOnMessage
    \/ BotEnsureChannelGet
    \/ BotEnsureChannelCategory
    \/ BotEnsureChannelSave
    \/ BotSaveUser
    \/ BotSaveMessage
    \/ BotHandlersReply
    \/ BotReplyRecord
    \/ IngestDiscoverCategory
    \/ IngestDiscoverChannel

SpecIngest == Init /\ [][NextIngest]_vars

\* where _on_message stands after _ensure_channel returned a channel
AfterEnsure ==
    {"ingest_save_user", "ingest_save_message", "ingest_handlers", "ingest_record"}

\* C40: in the ingestion of discordia.bot.Bot, once _ensure_channel has
\* returned a channel the channel is cached, and when save_message is about
\* to be called the author is cached as well, so save_message raises no
\* StateError; an unknown channel is saved with the event's parent as
\* category_id when that category is cached and with None when it is not,
\* so that save does not raise either; and a message for which
\* _ensure_channel gives up is dropped: nothing is written for it and its
\* handler loop is not reached, which only a saved message reaches.
C40_ChannelEnsuredBeforeSave ==
    /\ [](mpc \in AfterEnsure => mev[1].ev.channel_id \in Keys(channels))
    /\ [](mpc \in {"ingest_save_message", "ingest_handlers"}
          => mev[1].ev.author_id \in DOMAIN users)
    /\ [](mpc = "ingest_save_message" /\ mev[1].ev.id > 0
          => SaveMessageError(MessageOf(mev[1].ev)) = "")
    /\ [](mpc = "ingest_handlers" => mev[1].ev.id \in DOMAIN messages)
    /\ [](mpc = "ensure_save_channel"
          => /\ mev[1].parent_id \in {Null, mev[1].ev.parent_id}
             /\ mev[1].parent_id = Null \/ mev[1].parent_id \in Keys(categories)
             /\ SaveChannelError(EnsuredChannel(mev[1])) = "")
    /\ [][(mpc = "ensure_get_category" /\ mev[1].parent_id \in Keys(categories))
          => mev'[1].parent_id = mev[1].parent_id]_vars
    /\ [][(mpc = "ensure_save_channel" /\ mpc' = "ingest_save_user")
          => DictGet(channels', mev[1].ev.channel_id) = <<EnsuredChannel(mev[1])>>]_vars
    /\ [][(mpc \in {"ensure_get_channel", "ensure_get_category", "ensure_save_channel"}
           /\ mpc' = "idle")
          => (cache' = cache /\ mev' = mev)]_vars
    /\ [][(mpc' = "ingest_handlers" /\ mpc # "ingest_handlers")
          => mpc = "ingest_save_message"]_vars

\* the channel of a message was unknown and named a parent category that
\* is not cached: it has been saved with category_id None, and the author
\* and the message have been saved after it
C40_Witness ==
    /\ mpc = "ingest_handlers"
    /\ mev[1].ev.parent_id # Null
    /\ mev[1].parent_id = Null
    /\ mev[1].ev.parent_id \notin Keys(categories)
    /\ DictGet(channels, mev[1].ev.channel_id)
          = <<EnsuredChannel(IngestFrame(mev[1].ev, Null))>>
    /\ mev[1].ev.id \in DOMAIN messages

\* the channel of a message could not be saved, its name being no channel
\* name: the message was dropped and nothing of it is cached
C40_WitnessDropped ==
    /\ mpc = "idle"
    /\ mev # None
    /\ ~mev[1].ev.author_bot
    /\ mev[1].ev.channel_id > 0
    /\ ~ValidChannelName(mev[1].ev.channel_name)
    /\ mev[1].ev.channel_id \notin Keys(channels)
    /\ mev[1].ev.id > 0
    /\ mev[1].ev.id \notin DOMAIN messages
    /\ mev[1].ev.author_id \notin DOMAIN users

====
